---- MODULE Spec2Model ----
(***************************************************************************)
(* EasyTakeout: the Plan -> Merge Orchestrator of                          *)
(* app/TakeoutMetadataMergerApp.py, with the presentation-layer handlers   *)
(* that issue its commands (pause button, stop button, plan dialog).       *)
(*                                                                         *)
(* A file name is a sequence of tokens (<<"a", ".jpg", ".json">> is        *)
(* a.jpg.json); a path is a record [dir, name] where dir is the sequence   *)
(* of directory names below the source root.  A directory listing is a     *)
(* sequence of names, in the order the operating system returns them.      *)
(***************************************************************************)
EXTENDS Integers, Sequences, FiniteSets, TLC

\* ------------------------------------------------------------ bounds
\* Number of pause-button clicks the user makes during one run.
MaxClicks == 2
\* Number of times the user presses Start again after the first run was started.
MaxStarts == 1

\* Number of symbolic links the operating system follows in one path before it
\* refuses the path (ELOOP).
MaxSymlinks == 2

\* Number of entries of a directory whose sidecars are resolved.
MaxListing == 4

\* ------------------------------------------------------------ media sets
IMAGE_EXTS == {".jpg", ".jpeg", ".png", ".heic", ".dng", ".tif", ".tiff", ".webp"}
VIDEO_EXTS == {".mp4", ".mov", ".avi", ".m4v"}
MEDIA_EXTS == IMAGE_EXTS \cup VIDEO_EXTS
ALBUM_JSON_NAMES == {<<"metadata", ".json">>, <<"album", ".json">>}

Path(d, n) == [dir |-> d, name |-> n]

\* The absent path (Python None where a Path is expected).
None == [dir |-> <<>>, name |-> <<>>]

\* Number of characters of one token of a file name.
TokLen(t) ==
    CASE t = "a" -> 1
      [] t = "b" -> 1
      [] t = "c" -> 1
      [] t = "(1)" -> 3
      [] t = "(2)" -> 3
      [] t = "Metadata" -> 8
      [] t = "d1" -> 2
      [] t = "d2" -> 2
      [] t = "d3" -> 2
      [] t = "up" -> 2
      [] t = "notes" -> 5
      [] t = "metadata" -> 8
      [] t = "album" -> 5
      [] t = ".json" -> 5
      [] t = ".jpeg" -> 5
      [] t = ".heic" -> 5
      [] t = ".tiff" -> 5
      [] t = ".webp" -> 5
      [] OTHER -> 4

RECURSIVE NameLen(_)
\* len(p.name)
NameLen(n) == IF n = <<>> THEN 0 ELSE TokLen(Head(n)) + NameLen(Tail(n))

\* str.lower() on a token (the names used here are lower case already,
\* except the upper-case extensions).
Lower(t) ==
    CASE t = ".JPG" -> ".jpg"
      [] t = ".MOV" -> ".mov"
      [] t = "Metadata" -> "metadata"
      [] OTHER -> t

IsExtTok(t) == Lower(t) \in MEDIA_EXTS \cup {".json", ".txt"}

\* Path.suffix: the last dotted component, empty when there is none.
Suffix(n) == IF Len(n) > 1 /\ IsExtTok(n[Len(n)]) THEN n[Len(n)] ELSE ""
\* Path.stem: the name without its suffix.
Stem(n) == IF Suffix(n) = "" THEN n ELSE SubSeq(n, 1, Len(n) - 1)
\* Path.with_suffix(ext)
WithSuffix(n, ext) == Stem(n) \o <<ext>>

IsPrefix(s, t) == Len(s) <= Len(t) /\ SubSeq(t, 1, Len(s)) = s


\* ------------------------------------------------------------ file system
\* A tree maps every directory (a sequence of directory names) to its listing.
IsDirIn(tree, d) == d \in DOMAIN tree
\* Variant: a listing that a refusal does not empty
listdir_unrefused(tree, d, denied) == tree[d]

\* os.listdir(d) / d.iterdir() where the code catches its PermissionError:
\* the listing, or nothing for a directory the process may not list
listdir(tree, d, denied) == IF d \in denied THEN <<>> ELSE tree[d]
\* p.exists()
Exists(tree, p) ==
    /\ p.dir \in DOMAIN tree
    /\ \E i \in 1..Len(tree[p.dir]) : tree[p.dir][i] = p.name
\* p.is_file(): present and not a directory
IsFile(tree, p) == Exists(tree, p) /\ ~IsDirIn(tree, p.dir \o p.name)

is_media_file(tree, p) == IsFile(tree, p) /\ Lower(Suffix(p.name)) \in MEDIA_EXTS
is_image_file(tree, p) == IsFile(tree, p) /\ Lower(Suffix(p.name)) \in IMAGE_EXTS
is_video_file(tree, p) == IsFile(tree, p) /\ Lower(Suffix(p.name)) \in VIDEO_EXTS
\* p.name.lower() in ALBUM_JSON_NAMES
is_album_json(n) == [i \in 1..Len(n) |-> Lower(n[i])] \in ALBUM_JSON_NAMES

\* media_path.parent.glob(f"{base}*.json"), in listing order
GlobJson(tree, d, base) ==
    SelectSeq(tree[d], LAMBDA n : IsPrefix(base, n) /\ n[Len(n)] = ".json"
                                  /\ NameLen(n) >= NameLen(base) + 5)

\* cands.sort(key=len(name)); cands[0]: the sort is stable, so among the
\* shortest names the first one of the listing wins.
ShortestFirst(cands) ==
    LET m == CHOOSE k \in 1..Len(cands) :
               /\ \A j \in 1..Len(cands) : NameLen(cands[k]) <= NameLen(cands[j])
               /\ \A j \in 1..(k - 1) : NameLen(cands[j]) > NameLen(cands[k])
    IN cands[m]

\* Variant: a resolution that goes straight to the shortest candidate
find_sidecar_json_shortest(tree, media) ==
    LET cands == SelectSeq(GlobJson(tree, media.dir, Stem(media.name)),
                           LAMBDA n : ~is_album_json(n))
    IN IF cands # <<>> THEN Path(media.dir, ShortestFirst(cands)) ELSE None

find_sidecar_json(tree, media) ==
    LET exact == Path(media.dir, media.name \o <<".json">>)
        cands == SelectSeq(GlobJson(tree, media.dir, Stem(media.name)),
                           LAMBDA n : ~is_album_json(n))
    IN IF Exists(tree, exact) THEN exact
       ELSE IF cands # <<>> THEN Path(media.dir, ShortestFirst(cands))
       ELSE None

\* ------------------------------------------------------------ sidecar content
\* An optional number / string (Python None, or a value).
Nothing == [some |-> FALSE, n |-> 0]
Some(x) == [some |-> TRUE, n |-> x]
NoText == [some |-> FALSE, s |-> ""]
Text(x) == [some |-> TRUE, s |-> x]

\* The value of a "timestamp" key: a JSON integer, a string that is the
\* decimal text of an integer (what Takeout writes), another string, or null.
TsVal(kind, x) == [k |-> kind, n |-> x]
\* A photoTakenTime / creationTime value: the key is absent, an empty object,
\* or an object, with or without a "timestamp" key.
NoBlock == [k |-> "absent", has_ts |-> FALSE, ts |-> TsVal("null", 0)]
EmptyBlock == [k |-> "empty", has_ts |-> FALSE, ts |-> TsVal("null", 0)]
UntimedBlock == [k |-> "dict", has_ts |-> FALSE, ts |-> TsVal("null", 0)]
TimeBlock(v) == [k |-> "dict", has_ts |-> TRUE, ts |-> v]
\* A geoData / geoDataExif value: absent, or an object whose latitude,
\* longitude and altitude are numbers or not (Nothing).
NoGeo == [k |-> "absent", lat |-> Nothing, lon |-> Nothing, alt |-> Nothing]
Geo(la, lo, al) == [k |-> "dict", lat |-> la, lon |-> lo, alt |-> al]

\* bool(x) of a JSON value, as `or` tests it
TruthyBlock(b) == b.k = "dict"
TruthyText(t) == t.some /\ t.s # ""

\* int(pt["timestamp"]) inside try / except: pass
ParseInt(v) == IF v.k \in {"int", "numstr"} THEN Some(v.n) ELSE Nothing

\* Variant: a pick_geo that accepts every numeric pair
pick_geo_accepts_zero(g) ==
    IF g.k = "dict" /\ g.lat.some /\ g.lon.some
    THEN [ok |-> TRUE, lat |-> g.lat, lon |-> g.lon, alt |-> g.alt]
    ELSE [ok |-> FALSE, lat |-> Nothing, lon |-> Nothing, alt |-> Nothing]

\* pick_geo(g)
pick_geo(g) ==
    IF g.k = "dict" /\ g.lat.some /\ g.lon.some /\ (g.lat.n # 0 \/ g.lon.n # 0)
    THEN [ok |-> TRUE, lat |-> g.lat, lon |-> g.lon, alt |-> g.alt]
    ELSE [ok |-> FALSE, lat |-> Nothing, lon |-> Nothing, alt |-> Nothing]

\* the names of the people entries that have a non-empty name, in order
RECURSIVE Names(_)
Names(people) ==
    IF people = <<>> THEN <<>>
    ELSE (IF TruthyText(Head(people)) THEN <<Head(people).s>> ELSE <<>>)
         \o Names(Tail(people))

\* extract_google_fields(sidecar_json), on the parsed document
extract_google_fields(data) ==
    LET pt == IF TruthyBlock(data.photoTakenTime) THEN data.photoTakenTime
              ELSE data.creationTime
        exif == pick_geo(data.geoDataExif)
        geo == IF exif.ok THEN exif ELSE pick_geo(data.geoData)
    IN [taken_timestamp |-> IF pt.k \in {"empty", "dict"} /\ pt.has_ts
                            THEN ParseInt(pt.ts) ELSE Nothing,
        description |-> IF TruthyText(data.description) THEN data.description
                        ELSE IF TruthyText(data.caption) THEN data.caption
                        ELSE NoText,
        latitude |-> geo.lat, longitude |-> geo.lon, altitude |-> geo.alt,
        keywords |-> Names(data.people)]

\* datetime.utcfromtimestamp(ts).strftime("%Y:%m:%d %H:%M:%S") for ts >= 0:
\* the fields <<year, month, day, hour, minute, second>> of the text
utc_stamp(ts) ==
    LET z == (ts \div 86400) + 719468
        r == ts % 86400
        era == z \div 146097
        doe == z - era * 146097
        yoe == (doe - doe \div 1460 + doe \div 36524 - doe \div 146096) \div 365
        doy == doe - (365 * yoe + yoe \div 4 - yoe \div 100)
        mp == (5 * doy + 2) \div 153
        d == doy - (153 * mp + 2) \div 5 + 1
        m == IF mp < 10 THEN mp + 3 ELSE mp - 9
        y == yoe + era * 400 + (IF m <= 2 THEN 1 ELSE 0)
    IN <<y, m, d, r \div 3600, (r % 3600) \div 60, r % 60>>

\* one element of the argument vector: an option with the value after its
\* "=" (none for a flag), the executable, or the target path
Arg(opt, v) == [opt |-> opt, v |-> v]

\* build_exiftool_args(exiftool, overwrite, fields, target)
build_exiftool_args(overwrite, fields, target) ==
    LET ts == fields.taken_timestamp
        desc == fields.description
        kws == fields.keywords
    IN <<Arg("exiftool", <<>>)>>
       \o (IF overwrite THEN <<Arg("-overwrite_original", <<>>)>> ELSE <<>>)
       \o <<Arg("-P", <<>>), Arg("-m", <<>>), Arg("-n", <<>>)>>
       \o (IF ts.some /\ ts.n # 0
           THEN <<Arg("-DateTimeOriginal=", utc_stamp(ts.n)),
                  Arg("-CreateDate=", utc_stamp(ts.n)),
                  Arg("-ModifyDate=", utc_stamp(ts.n))>>
           ELSE <<>>)
       \o (IF fields.latitude.some /\ fields.longitude.some
           THEN <<Arg("-GPSLatitude=", fields.latitude.n),
                  Arg("-GPSLongitude=", fields.longitude.n)>>
                \o (IF fields.altitude.some
                    THEN <<Arg("-GPSAltitude=", fields.altitude.n)>> ELSE <<>>)
           ELSE <<>>)
       \o (IF TruthyText(desc)
           THEN <<Arg("-XMP:Description=", <<desc.s>>),
                  Arg("-IPTC:Caption-Abstract=", <<desc.s>>)>>
           ELSE <<>>)
       \o (IF kws # <<>> /\ overwrite THEN <<Arg("-XMP:Subject=", <<>>)>> ELSE <<>>)
       \o [k \in 1..Len(kws) |-> Arg("-XMP:Subject+=", <<"-", kws[k], "-">>)]
       \o <<Arg("target", target)>>

\* ------------------------------------------------------------ sidecar documents
\* Number of entries of the "people" list of a sidecar.
MaxPeople == 2

\* 2023-11-14 22:13:20 UTC and 1970-01-01 23:59:59 UTC
T1 == 1700000000
T2 == 86399
TsVals(T) == {TsVal("int", 0), TsVal("int", T), TsVal("numstr", 0), TsVal("numstr", T),
              TsVal("badstr", 0), TsVal("null", 0)}
TimeBlocks(T) == {NoBlock, EmptyBlock, UntimedBlock} \cup {TimeBlock(v) : v \in TsVals(T)}
GeoBlocks ==
    {NoGeo} \cup {Geo(la, lo, al) : la \in {Nothing, Some(0), Some(48)},
                                    lo \in {Nothing, Some(0), Some(2)},
                                    al \in {Nothing, Some(35)}}
PeopleLists ==
    UNION {[1..n -> {NoText, Text(""), Text("Ann"), Text("Bob")}] : n \in 0..MaxPeople}

\* A sidecar as Takeout writes it.
SampleData ==
    [photoTakenTime |-> TimeBlock(TsVal("numstr", T1)),
     creationTime |-> TimeBlock(TsVal("numstr", T2)),
     description |-> Text("D"), caption |-> NoText,
     people |-> <<Text("Ann")>>,
     geoDataExif |-> Geo(Some(0), Some(0), Some(0)),
     geoData |-> Geo(Some(48), Some(2), Some(35))]
\* The sidecar documents looked at: every pair of time blocks, every pair
\* of geo blocks, and every combination of a timestamp, the description
\* keys and the people list, the rest as in SampleData.
JsonData ==
    {[SampleData EXCEPT !.photoTakenTime = a, !.creationTime = b] :
        a \in TimeBlocks(T1), b \in TimeBlocks(T2)}
    \cup {[SampleData EXCEPT !.geoDataExif = a, !.geoData = b] :
        a \in GeoBlocks, b \in GeoBlocks}
    \cup {[SampleData EXCEPT !.photoTakenTime = a, !.description = d, !.caption = c,
                              !.people = p] :
        a \in {NoBlock, TimeBlock(TsVal("int", 0)), TimeBlock(TsVal("numstr", T1))},
        d \in {NoText, Text(""), Text("D")}, c \in {NoText, Text(""), Text("C")},
        p \in PeopleLists}

\* ------------------------------------------------------------ source trees
n_a_jpg == <<"a", ".jpg">>
n_a_jpg_json == <<"a", ".jpg", ".json">>
n_a_mov == <<"a", ".mov">>
n_b_png == <<"b", ".png">>
n_b_jpg == <<"b", ".jpg">>
n_b_jpg_json == <<"b", ".jpg", ".json">>
n_b_1_json == <<"b", "(1)", ".json">>
n_b_json == <<"b", ".json">>
n_metadata_json == <<"metadata", ".json">>
n_notes_txt == <<"notes", ".txt">>
n_dot_jpg == <<".jpg">>
n_c_jpg == <<"c", ".jpg">>
n_c_mov == <<"c", ".mov">>
n_d1 == <<"d1">>
n_d2 == <<"d2">>
n_d3 == <<"d3">>

Root == <<>>

\* A live pair (a.jpg + a.mov) with the one sidecar Takeout writes for it,
\* and an image without any sidecar.
TreeLive == (Root :> <<n_a_jpg, n_a_jpg_json, n_a_mov, n_b_png>>)
\* A subdirectory; the same media name in two directories; an album JSON;
\* a decorated and a plain sidecar candidate; one sidecar that is not JSON.
TreeNested ==
    (Root :> <<n_d1, n_metadata_json, n_b_jpg, n_b_jpg_json>>)
    @@ (n_d1 :> <<n_b_jpg, n_b_1_json, n_b_json>>)
\* No media file at all.
TreeEmpty == (Root :> <<n_d1, n_metadata_json, n_notes_txt>>) @@ (n_d1 :> <<>>)

\* What the source root can be when stage_plan looks at it.
SourceStates == {"ok", "missing", "not_a_directory", "unreadable"}

\* Two levels of subdirectories: d1 (with d1/d3 below it) and d2.
TreeDeep ==
    (Root :> <<n_d1, n_d2>>)
    @@ (n_d1 :> <<n_d3, n_a_mov>>)
    @@ (n_d2 :> <<n_b_png>>)
    @@ ((n_d1 \o n_d3) :> <<n_a_jpg, n_a_jpg_json>>)

\* Three images, two of them with an exact sidecar, and a video with the stem
\* of the third.
TreeExample ==
    (Root :> <<n_a_jpg, n_a_jpg_json, n_b_jpg, n_b_jpg_json, n_c_jpg, n_c_mov>>)
\* A file whose whole name is an extension, next to an image.
TreeDot == (Root :> <<n_dot_jpg, n_b_png>>)

\* A subdirectory d1 that holds a symbolic link, up, to the source root: the
\* root is reached again as d1/up, d1/up/d1/up, ... and is_dir() follows the
\* link until the path holds more links than the operating system follows.
n_up == <<"up">>
RECURSIVE Rep(_)
Rep(k) == IF k = 0 THEN Root ELSE Rep(k - 1) \o n_d1 \o n_up
TreeLoop ==
    [d \in {Rep(k) : k \in 0..MaxSymlinks} \cup {Rep(k) \o n_d1 : k \in 0..MaxSymlinks} |->
        IF d \in {Rep(k) : k \in 0..MaxSymlinks}
        THEN <<n_d1, n_notes_txt>>
        ELSE <<n_up>>]

Scenarios ==
    { [tree |-> TreeLive, bad |-> {}, denied |-> {}],
      [tree |-> TreeExample, bad |-> {}, denied |-> {}],
      [tree |-> TreeDot, bad |-> {}, denied |-> {}],
      [tree |-> TreeDeep, bad |-> {}, denied |-> {}],
      [tree |-> TreeNested, bad |-> {Path(Root, n_b_jpg_json)}, denied |-> {}],
      [tree |-> TreeEmpty, bad |-> {}, denied |-> {}] }

\* ------------------------------------------------------------ state
VARIABLES
    \* Orchestrator.__init__
    stop, paused,            \* self._stop, self._paused
    cfg,                     \* dry_run, preserve (constructor arguments), and
                             \* overwrite (constructor arguments), and the facts
                             \* of the environment: the source tree, the state
                             \* of the source root, the tool on PATH, the
                             \* document the parseable sidecars hold, the
                             \* directories the process may not list
    plan, analysis, failure_reasons,
    \* the worker thread: position in run / stage_plan / stage_merge
    pc,
    \* stage_plan locals, pass 0 (inventory)
    all_directories, directories_to_scan, current_dir, dir_contents, subdirs,
    chunk_i, item_i,
    \* stage_plan locals, pass 1 and pass 2
    dir_i, total_media, listing, file_i,
    images, videos, with_json, without_json, stems,
    \* stage_merge locals
    idx, ok_ct, fail_ct, warn_ct, report_csv, csv, cur,
    \* the lines stage_merge passes to self.log (status.emit), and the content
    \* of the file at log_path (flog)
    statusLines, flog,
    \* the world: the source tree, the moves done, the tool invocations
    fs, moves, toolCalls,
    \* signals emitted by the worker, and those queued for the GUI thread
    events, pending,
    \* App widgets
    btn_pause_text, btn_pause_enabled, btn_stop_enabled, dlg, clicks,
    btn_start_enabled,
    \* the worker self.worker pointed to before on_start replaced it: where that
    \* thread stood at the replacement ("none": nothing was replaced); and the
    \* number of times Start was used again
    old_worker, starts,
    \* history: what the run looked like when stop was requested
    stopAt, stopPausedAt, stopWaitPc,
    \* history: the writes of the control flags made after construction, each
    \* with whether _pause_mx was held at the write
    flagWrites,
    \* history: the number of directory entries the passes of stage_plan have
    \* examined; that number, the number of directories recorded and the pass
    \* the worker was in, when stop was first requested and when the pause
    \* button last paused
    examined, stopMark, pauseMark

\* no request noted
NoMark == [n |-> -1, dirs |-> 0, pass |-> ""]

ctrlV == <<stop, paused>>
walkV == <<all_directories, directories_to_scan, current_dir, dir_contents, subdirs,
           chunk_i, item_i>>
planV == <<dir_i, total_media, listing, file_i, images, videos, with_json,
           without_json, stems, plan, analysis>>
mergeV == <<idx, ok_ct, fail_ct, warn_ct, report_csv, csv, cur, failure_reasons,
            statusLines, flog>>
worldV == <<fs, moves, toolCalls>>
startV == <<old_worker, starts>>
appV == <<btn_pause_text, btn_pause_enabled, btn_stop_enabled, dlg, clicks,
          btn_start_enabled, startV>>
stopV == <<stopAt, stopPausedAt, stopWaitPc>>
seenV == <<examined, stopMark, pauseMark>>
histV == <<stopV, flagWrites, seenV>>
vars == <<ctrlV, cfg, pc, walkV, planV, mergeV, worldV, events, pending, appV, histV>>

\* Variant: a short-circuit summary that still counts the source root
ZeroAnalysis_NotZero ==
    [total |-> 1, images |-> 0, videos |-> 0, with_json |-> 0,
     without_json |-> 0, live_pairs |-> 0]

ZeroAnalysis ==
    [total |-> 0, images |-> 0, videos |-> 0, with_json |-> 0,
     without_json |-> 0, live_pairs |-> 0]

NoCur == [kind |-> "", ok |-> FALSE, sidecar |-> None]

\* Orchestrator.__init__ followed by App.on_start up to worker.start()
InitWith(S) ==
    /\ stop = FALSE
    /\ paused = FALSE
    /\ \E sc \in S, d \in BOOLEAN, pr \in BOOLEAN,
          src \in SourceStates, tool \in BOOLEAN :
         /\ cfg = [dry_run |-> d, preserve |-> pr, bad |-> sc.bad, tree0 |-> sc.tree,
                   src |-> src, tool |-> tool, overwrite |-> TRUE, data |-> SampleData,
                   denied |-> sc.denied]
         /\ fs = sc.tree
    /\ plan = <<>>
    /\ analysis = ZeroAnalysis
    /\ failure_reasons = [no_json |-> 0, bad_json |-> 0, exiftool_error |-> 0,
                          partner_error |-> 0, other_error |-> 0]
    /\ pc = "run"
    /\ all_directories = <<>>
    /\ directories_to_scan = <<>>
    /\ current_dir = Root
    /\ dir_contents = <<>>
    /\ subdirs = <<>>
    /\ chunk_i = 0
    /\ item_i = 0
    /\ dir_i = 0
    /\ total_media = 0
    /\ listing = <<>>
    /\ file_i = 0
    /\ images = 0 /\ videos = 0 /\ with_json = 0 /\ without_json = 0
    /\ stems = {}
    /\ idx = 0 /\ ok_ct = 0 /\ fail_ct = 0 /\ warn_ct = 0
    /\ report_csv = "none"
    /\ csv = <<>>
    /\ statusLines = <<>> /\ flog = <<>>
    /\ cur = NoCur
    /\ moves = <<>>
    /\ toolCalls = <<>>
    /\ events = <<>>
    /\ pending = {}
    /\ btn_pause_text = "Pause"
    /\ btn_pause_enabled = TRUE
    /\ btn_stop_enabled = TRUE
    /\ dlg = "none"
    /\ clicks = 0
    /\ btn_start_enabled = FALSE
    /\ old_worker = "none" /\ starts = 0
    /\ stopAt = -1
    /\ examined = 0 /\ stopMark = NoMark /\ pauseMark = NoMark
    /\ stopPausedAt = 0
    /\ stopWaitPc = ""
    /\ flagWrites = {}

Init == InitWith(Scenarios)

\* ------------------------------------------------------------ public controls
\* Variant: a stop request that flips the flag instead of setting it
request_stop_toggles ==
    /\ stop' = ~stop
    /\ flagWrites' = flagWrites \cup {[flag |-> "stop", locked |-> FALSE]}

\* def request_stop(self): self._stop = True   (no lock is taken)
request_stop ==
    /\ stop' = TRUE
    /\ flagWrites' = flagWrites \cup {[flag |-> "stop", locked |-> FALSE]}

\* def toggle_pause(self, desired): the write of _paused under the mutex; the
\* wakeAll on unpause is what the waiting worker's re-check observes.
toggle_pause(desired) ==
    /\ paused' = desired
    /\ flagWrites' = flagWrites \cup {[flag |-> "paused", locked |-> TRUE]}

\* Variant: a pause gate that does not wait
maybe_pause_no_wait(here, next) ==
    /\ pc = here
    /\ pc' = next

\* Variant: a pause gate whose loop does not test the stop flag
maybe_pause_ignores_stop(here, next) ==
    /\ pc = here
    /\ IF paused
       THEN UNCHANGED pc
       ELSE pc' = next

\* _maybe_pause: `while self._paused and not self._stop: wait(mutex, 200)`.
\* One step is one evaluation of the loop condition, after a wake-up or after
\* the 200 ms timeout; the worker stays at `here` while the condition holds.
maybe_pause(here, next) ==
    /\ pc = here
    /\ IF paused /\ ~stop
       THEN UNCHANGED pc
       ELSE pc' = next

\* One line of the log: its text up to the file name, and the plan entry it
\* is about (0 for a line that is about no entry).
LogLine(text, i) == [text |-> text, entry |-> i]

\* Variant: a log that also writes the line to the file at log_path
log_to_flog(lines) == statusLines' = statusLines \o lines /\ flog' = flog \o lines

\* self.log(msg): status.emit, and a write to self.log_file if there is one.
\* self.log_file is None throughout (__init__ sets it, nothing calls
\* _init_log_file), and flog, the file stage_merge opens at log_path, is not
\* what log writes to: no file receives the line.
log(lines) == statusLines' = statusLines \o lines /\ UNCHANGED flog

\* signal.emit(...) towards the GUI thread: recorded, and queued for its slot
Emit(sig) == events' = Append(events, sig)


\* ------------------------------------------------------------ Stage 1: Plan
chunk_size == 1000

\* run() entering stage_plan: the checks of the source root.  A failed check
\* raises RuntimeError, which run() turns into the fatal signal.
StagePlanStart ==
    /\ pc = "run"
    /\ IF cfg.src = "ok"
       THEN /\ Emit("stage:Planning")
            /\ directories_to_scan' = <<Root>>
            /\ all_directories' = <<>>
            /\ pc' = "walk_while"
            /\ UNCHANGED pending
       ELSE /\ events' = events \o <<"stage:Planning", "fatal">>
            /\ pending' = pending \cup {"fatal"}
            /\ pc' = "done"
            /\ UNCHANGED <<directories_to_scan, all_directories>>
    /\ UNCHANGED <<ctrlV, cfg, current_dir, dir_contents, subdirs, chunk_i, item_i,
                   planV, mergeV, worldV, appV, histV>>

\* while directories_to_scan and not self._stop:
WalkWhile ==
    /\ pc = "walk_while"
    /\ IF directories_to_scan # <<>> /\ ~stop
       THEN pc' = "walk_pause" /\ UNCHANGED <<dir_i, total_media>>
       ELSE pc' = "count_for" /\ dir_i' = 1 /\ total_media' = 0
    /\ UNCHANGED <<ctrlV, cfg, walkV, listing, file_i, images, videos, with_json,
                   without_json, stems, plan, analysis, mergeV, worldV, events,
                   pending, appV, histV>>

WalkPause ==
    /\ maybe_pause("walk_pause", "walk_pop")
    /\ UNCHANGED <<ctrlV, cfg, walkV, planV, mergeV, worldV, events, pending, appV, histV>>

\* Variant: a walk that reads the head of the queue without removing it
WalkPop_KeepsHead ==
    /\ pc = "walk_pop"
    /\ current_dir' = Head(directories_to_scan)
    /\ all_directories' = Append(all_directories, Head(directories_to_scan))
    /\ dir_contents' = listdir(fs, Head(directories_to_scan), cfg.denied)
    /\ subdirs' = <<>>
    /\ chunk_i' = 0
    /\ item_i' = 1
    /\ pc' = "walk_chunk"
    /\ UNCHANGED <<ctrlV, cfg, directories_to_scan, planV, mergeV, worldV, events,
                   pending, appV, histV>>

\* current_dir = directories_to_scan.pop(0); all_directories.append(current_dir);
\* dir_contents = os.listdir(current_dir)
WalkPop ==
    /\ pc = "walk_pop"
    /\ current_dir' = Head(directories_to_scan)
    /\ directories_to_scan' = Tail(directories_to_scan)
    /\ all_directories' = Append(all_directories, Head(directories_to_scan))
    /\ dir_contents' = listdir(fs, Head(directories_to_scan), cfg.denied)
    /\ subdirs' = <<>>
    /\ chunk_i' = 0
    /\ item_i' = 1
    /\ pc' = "walk_chunk"
    /\ UNCHANGED <<ctrlV, cfg, planV, mergeV, worldV, events, pending, appV, histV>>

\* for i in range(0, len(dir_contents), chunk_size): if self._stop: break
WalkChunk ==
    /\ pc = "walk_chunk"
    /\ IF chunk_i >= Len(dir_contents) \/ stop
       THEN pc' = "walk_extend" /\ UNCHANGED item_i
       ELSE pc' = "walk_chunk_pause" /\ item_i' = chunk_i + 1
    /\ UNCHANGED <<ctrlV, cfg, all_directories, directories_to_scan, current_dir,
                   dir_contents, subdirs, chunk_i, planV, mergeV, worldV, events,
                   pending, appV, histV>>

WalkChunkPause ==
    /\ maybe_pause("walk_chunk_pause", "walk_item")
    /\ UNCHANGED <<ctrlV, cfg, walkV, planV, mergeV, worldV, events, pending, appV, histV>>

\* for item_name in chunk: if self._stop: break; if item_path.is_dir(): subdirs.append
WalkItem ==
    /\ pc = "walk_item"
    /\ IF item_i > Len(dir_contents) \/ item_i > chunk_i + chunk_size \/ stop
       THEN /\ pc' = "walk_chunk"
            /\ chunk_i' = chunk_i + chunk_size
            /\ UNCHANGED <<subdirs, item_i, examined>>
       ELSE /\ subdirs' = IF IsDirIn(fs, current_dir \o dir_contents[item_i])
                          THEN Append(subdirs, current_dir \o dir_contents[item_i])
                          ELSE subdirs
            /\ item_i' = item_i + 1
            /\ examined' = examined + 1
            /\ UNCHANGED <<pc, chunk_i>>
    /\ UNCHANGED <<ctrlV, cfg, all_directories, directories_to_scan, current_dir,
                   dir_contents, planV, mergeV, worldV, events, pending, appV, stopV, flagWrites, stopMark, pauseMark>>

\* Variant: a walk that puts the subdirectories at the front of the queue
WalkExtend_DepthFirst ==
    /\ pc = "walk_extend"
    /\ directories_to_scan' = subdirs \o directories_to_scan
    /\ pc' = "walk_while"
    /\ UNCHANGED <<ctrlV, cfg, all_directories, current_dir, dir_contents, subdirs,
                   chunk_i, item_i, planV, mergeV, worldV, events, pending, appV, histV>>

\* directories_to_scan.extend(subdirs)
WalkExtend ==
    /\ pc = "walk_extend"
    /\ directories_to_scan' = directories_to_scan \o subdirs
    /\ pc' = "walk_while"
    /\ UNCHANGED <<ctrlV, cfg, all_directories, current_dir, dir_contents, subdirs,
                   chunk_i, item_i, planV, mergeV, worldV, events, pending, appV, histV>>

\* Pass 1.  for directory in all_directories: if self._stop: break
CountFor ==
    /\ pc = "count_for"
    /\ pc' = IF dir_i > Len(all_directories) \/ stop THEN "count_done" ELSE "count_pause"
    /\ UNCHANGED <<ctrlV, cfg, walkV, planV, mergeV, worldV, events, pending, appV, histV>>

CountPause ==
    /\ maybe_pause("count_pause", "count_dir")
    /\ UNCHANGED <<ctrlV, cfg, walkV, planV, mergeV, worldV, events, pending, appV, histV>>

\* Variant: a count pass that counts every directory entry
MediaCount_AllEntries(tree, d) == Len(tree[d])

\* is_media_name (local to stage_plan): the lower-cased name ends with a
\* media extension; unlike Path.suffix this holds for a name that is nothing
\* but the extension (".jpg")
is_media_name(n) == Lower(n[Len(n)]) \in MEDIA_EXTS

\* the number of entries of directory d the count pass counts: files whose
\* name is a media name
MediaCount(tree, d) ==
    Cardinality({i \in 1..Len(tree[d]) :
                    IsFile(tree, Path(d, tree[d][i])) /\ is_media_name(tree[d][i])})

CountDir ==
    /\ pc = "count_dir"
    /\ total_media' = total_media + (IF all_directories[dir_i] \in cfg.denied THEN 0
                                      ELSE MediaCount(fs, all_directories[dir_i]))
    /\ dir_i' = dir_i + 1
    /\ examined' = examined + Len(listdir(fs, all_directories[dir_i], cfg.denied))
    /\ pc' = "count_for"
    /\ UNCHANGED <<ctrlV, cfg, walkV, listing, file_i, images, videos, with_json,
                   without_json, stems, plan, analysis, mergeV, worldV, events,
                   pending, appV, stopV, flagWrites, stopMark, pauseMark>>

\* if total_media == 0: all-zero analysis, need_user_confirm.emit, (then pause)
\* else: the initialisation of pass 2
CountDone ==
    /\ pc = "count_done"
    /\ IF total_media = 0
       THEN /\ analysis' = ZeroAnalysis
            /\ Emit("need_user_confirm")
            /\ pending' = pending \cup {"need_user_confirm"}
            /\ pc' = "plan_pause"
            /\ UNCHANGED <<plan, images, videos, with_json, without_json, stems, dir_i>>
       ELSE /\ plan' = <<>>
            /\ images' = 0 /\ videos' = 0 /\ with_json' = 0 /\ without_json' = 0
            /\ stems' = {}
            /\ dir_i' = 1
            /\ pc' = "map_for"
            /\ UNCHANGED <<analysis, events, pending>>
    /\ UNCHANGED <<ctrlV, cfg, walkV, total_media, listing, file_i, mergeV, worldV,
                   appV, histV>>

\* Pass 2.  for directory in all_directories: if self._stop: break
MapFor ==
    /\ pc = "map_for"
    /\ pc' = IF dir_i > Len(all_directories) \/ stop THEN "map_done" ELSE "map_pause"
    /\ UNCHANGED <<ctrlV, cfg, walkV, planV, mergeV, worldV, events, pending, appV, histV>>

MapPause ==
    /\ maybe_pause("map_pause", "map_dir")
    /\ UNCHANGED <<ctrlV, cfg, walkV, planV, mergeV, worldV, events, pending, appV, histV>>

\* for file_path in directory.iterdir():
MapDir ==
    /\ pc = "map_dir"
    /\ listing' = listdir(fs, all_directories[dir_i], cfg.denied)
    /\ file_i' = 1
    /\ pc' = "map_file"
    /\ UNCHANGED <<ctrlV, cfg, walkV, dir_i, total_media, images, videos, with_json,
                   without_json, stems, plan, analysis, mergeV, worldV, events,
                   pending, appV, histV>>

\* if self._stop: break   (the break leaves the directory, not the pass)
MapFile ==
    /\ pc = "map_file"
    /\ IF file_i > Len(listing) \/ stop
       THEN pc' = "map_for" /\ dir_i' = dir_i + 1
       ELSE pc' = "map_file_pause" /\ UNCHANGED dir_i
    /\ UNCHANGED <<ctrlV, cfg, walkV, total_media, listing, file_i, images, videos,
                   with_json, without_json, stems, plan, analysis, mergeV, worldV,
                   events, pending, appV, histV>>

MapFilePause ==
    /\ maybe_pause("map_file_pause", "map_file_body")
    /\ UNCHANGED <<ctrlV, cfg, walkV, planV, mergeV, worldV, events, pending, appV, histV>>

\* the body of the mapping loop for one directory entry
MapFileBody ==
    /\ pc = "map_file_body"
    /\ LET file_path == Path(all_directories[dir_i], listing[file_i])
           sc == find_sidecar_json(fs, file_path)
           tp == IF is_image_file(fs, file_path) THEN "img" ELSE "vid"
       IN IF ~is_media_file(fs, file_path)
          THEN UNCHANGED <<images, videos, with_json, without_json, stems, plan>>
          ELSE /\ images' = images + (IF is_image_file(fs, file_path) THEN 1 ELSE 0)
               /\ videos' = videos + (IF is_video_file(fs, file_path) THEN 1 ELSE 0)
               /\ with_json' = with_json + (IF sc # None THEN 1 ELSE 0)
               /\ without_json' = without_json + (IF sc = None THEN 1 ELSE 0)
               /\ plan' = Append(plan, [media |-> file_path, sidecar |-> sc])
               /\ stems' = stems \cup {<<Stem(file_path.name), tp>>}
    /\ file_i' = file_i + 1
    /\ examined' = examined + 1
    /\ pc' = "map_file"
    /\ UNCHANGED <<ctrlV, cfg, walkV, dir_i, total_media, listing, analysis, mergeV,
                   worldV, events, pending, appV, stopV, flagWrites, stopMark, pauseMark>>

\* sum(1 for types in stems.values() if "img" in types and "vid" in types)
LivePairs(st) ==
    Cardinality({s \in {x[1] : x \in st} : <<s, "img">> \in st /\ <<s, "vid">> \in st})

\* the end of stage_plan up to need_user_confirm.emit(self.analysis)
MapDone ==
    /\ pc = "map_done"
    /\ analysis' = [total |-> total_media, images |-> images, videos |-> videos,
                    with_json |-> with_json, without_json |-> without_json,
                    live_pairs |-> LivePairs(stems)]
    /\ Emit("need_user_confirm")
    /\ pending' = pending \cup {"need_user_confirm"}
    /\ pc' = "plan_pause"
    /\ UNCHANGED <<ctrlV, cfg, walkV, dir_i, total_media, listing, file_i, images,
                   videos, with_json, without_json, stems, plan, mergeV, worldV,
                   appV, histV>>

\* Variant: a stage_plan that returns without pausing
PlanPause_NoPause ==
    /\ pc = "plan_pause"
    /\ pc' = "gate"
    /\ UNCHANGED <<ctrlV, cfg, walkV, planV, mergeV, worldV, events, pending, appV, histV>>

\* self.toggle_pause(True), the last statement of stage_plan
PlanPause ==
    /\ pc = "plan_pause"
    /\ toggle_pause(TRUE)
    /\ pc' = "gate"
    /\ UNCHANGED <<stop, cfg, walkV, planV, mergeV, worldV, events, pending, appV, stopV, seenV>>

\* ------------------------------------------------------------ run(): the gate
\* while self._paused and not self._stop: self._pause_cv.wait(self._pause_mx, 200)
Gate ==
    /\ pc = "gate"
    /\ IF paused /\ ~stop THEN UNCHANGED pc ELSE pc' = "gate_stop"
    /\ UNCHANGED <<ctrlV, cfg, walkV, planV, mergeV, worldV, events, pending, appV, histV>>

\* if self._stop: return
GateStop ==
    /\ pc = "gate_stop"
    /\ pc' = IF stop THEN "done" ELSE "merge_start"
    /\ UNCHANGED <<ctrlV, cfg, walkV, planV, mergeV, worldV, events, pending, appV, histV>>


\* ------------------------------------------------------------ Stage 2: Merge
\* the listing of a directory after shutil.move took p out of it
Without(tree, p) ==
    [tree EXCEPT ![p.dir] = SelectSeq(@, LAMBDA n : n # p.name)]

\* Variant: a destination that is the failed tree for every outcome
Dest_AlwaysFailed(ok, media, name) ==
    [root |-> "failed", dir |-> IF cfg.preserve THEN media.dir ELSE Root, name |-> name]

\* The destination of move_pair: the tree (completed / failed), the directory
\* below it (the path relative to the source when preserve is on) and the name.
Dest(ok, media, name) ==
    [root |-> IF ok THEN "completed" ELSE "failed",
     dir |-> IF cfg.preserve THEN media.dir ELSE Root,
     name |-> name]

\* Variant: a move_pair that moves the media file in dry-run mode too
move_pair_ignores_dry_run(media, sidecar, ok) ==
    /\ moves' = Append(moves, [src |-> media, dst |-> Dest(ok, media, media.name)])
    /\ fs' = Without(fs, media)

\* move_pair(media, sidecar, ok): nothing is moved in dry-run mode; the sidecar
\* is moved only if one is given and it still exists.
move_pair(media, sidecar, ok) ==
    IF cfg.dry_run
    THEN UNCHANGED <<fs, moves>>
    ELSE LET mv1 == [src |-> media, dst |-> Dest(ok, media, media.name)]
             fs1 == Without(fs, media)
             withJson == sidecar # None /\ Exists(fs1, sidecar)
             mv2 == [src |-> sidecar, dst |-> Dest(ok, media, media.name \o <<".json">>)]
         IN /\ moves' = IF withJson THEN moves \o <<mv1, mv2>> ELSE Append(moves, mv1)
            /\ fs' = IF withJson THEN Without(fs1, sidecar) ELSE fs1

\* run_exiftool(args): the exit codes the invocation can end with
run_exiftool == IF cfg.dry_run THEN {0} ELSE {0, 1}

\* the invocations of the external tool a call of run_exiftool adds: the
\* target, the plan entry it is made for, whether the target is that entry's
\* live partner, and the exit code
Invoked(target, i, isPartner, rc) ==
    IF cfg.dry_run THEN <<>>
    ELSE <<[target |-> target, entry |-> i, partner |-> isPartner, rc |-> rc,
            args |-> build_exiftool_args(cfg.overwrite,
                                         extract_google_fields(cfg.data), target)]>>

RECURSIVE FirstExisting(_, _, _)
FirstExisting(tree, media, exts) ==
    IF exts = <<>> THEN None
    ELSE LET cand == Path(media.dir, WithSuffix(media.name, Head(exts)))
         IN IF Exists(tree, cand) /\ cand # media /\ Stem(cand.name) = Stem(media.name)
            THEN cand
            ELSE FirstExisting(tree, media, Tail(exts))

\* live_partner_of(media)
live_partner_of(tree, media) ==
    FirstExisting(tree, media, <<".mov", ".mp4", ".jpg", ".jpeg">>)

\* Variant: a taxonomy that counts every reason as other_error
Bump_other_error(fr, kind) == [fr EXCEPT !["other_error"] = @ + 1]

Bump(fr, kind) == [fr EXCEPT ![kind] = @ + 1]

\* Variant: a report row that keeps the status of successes only
Row_unclassified(media, sidecar, status) ==
    [media_path |-> media, json_sidecar |-> sidecar,
     status |-> IF status = "COMPLETED" THEN status ELSE ""]

Row(media, sidecar, status) == [media_path |-> media, json_sidecar |-> sidecar, status |-> status]

\* Variant: a stage_merge that does not look for the tool before the loop
MergeStart_NoToolCheck ==
    /\ pc = "merge_start"
    /\ log(<<LogLine("Starting stage: Merging", 0)>>)
    /\ Emit("stage:Merging")
    /\ ok_ct' = 0 /\ fail_ct' = 0 /\ warn_ct' = 0
    /\ report_csv' = "open"
    /\ csv' = <<>>
    /\ idx' = 1
    /\ pc' = "merge_for"
    /\ UNCHANGED <<ctrlV, cfg, walkV, planV, cur, failure_reasons, worldV, pending,
                   appV, histV>>

\* stage_merge up to the first loop test: the stage line of the log, the
\* destination directories, the tool check (RuntimeError -> fatal), the report
\* opened with its header row and the (empty) file at log_path.
MergeStart ==
    /\ pc = "merge_start"
    /\ log(<<LogLine("Starting stage: Merging", 0)>>)
    /\ IF ~cfg.dry_run /\ ~cfg.tool
       THEN /\ events' = events \o <<"stage:Merging", "fatal">>
            /\ pending' = pending \cup {"fatal"}
            /\ pc' = "done"
            /\ UNCHANGED <<idx, ok_ct, fail_ct, warn_ct, report_csv, csv>>
       ELSE /\ Emit("stage:Merging")
            /\ ok_ct' = 0 /\ fail_ct' = 0 /\ warn_ct' = 0
            /\ report_csv' = "open"
            /\ csv' = <<>>
            /\ idx' = 1
            /\ pc' = "merge_for"
            /\ UNCHANGED pending
    /\ UNCHANGED <<ctrlV, cfg, walkV, planV, cur, failure_reasons, worldV, appV, histV>>

\* Variant: a merge loop without the stop test
MergeFor_IgnoresStop ==
    /\ pc = "merge_for"
    /\ pc' = IF idx > Len(plan) THEN "merge_end" ELSE "merge_pause"
    /\ UNCHANGED <<ctrlV, cfg, walkV, planV, mergeV, worldV, events, pending, appV, histV>>

\* Variant: a merge loop that, when stopped, drops the entries it did not reach
MergeFor_DropsUnreached ==
    /\ pc = "merge_for"
    /\ pc' = IF idx > Len(plan) \/ stop THEN "merge_end" ELSE "merge_pause"
    /\ plan' = IF stop /\ idx <= Len(plan) THEN SubSeq(plan, 1, idx - 1) ELSE plan
    /\ UNCHANGED <<dir_i, total_media, listing, file_i, images, videos, with_json,
                   without_json, stems, analysis>>
    /\ UNCHANGED <<ctrlV, cfg, walkV, mergeV, worldV, events, pending, appV, histV>>

\* for idx, (media, sidecar) in enumerate(self.plan, start=1): if self._stop: break
MergeFor ==
    /\ pc = "merge_for"
    /\ pc' = IF idx > Len(plan) \/ stop THEN "merge_end" ELSE "merge_pause"
    /\ UNCHANGED <<ctrlV, cfg, walkV, planV, mergeV, worldV, events, pending, appV, histV>>

MergePause ==
    /\ maybe_pause("merge_pause", "merge_proc")
    /\ UNCHANGED <<ctrlV, cfg, walkV, planV, mergeV, worldV, events, pending, appV, histV>>

\* One plan entry, from the sidecar test to the CSV row: the classification,
\* the tool on the media file and on its live partner, writer.writerow.
MergeProc ==
    /\ pc = "merge_proc"
    /\ LET media == plan[idx].media
           sidecar == plan[idx].sidecar
           partner == live_partner_of(fs, media)
       IN IF sidecar = None \/ ~Exists(fs, sidecar)
          THEN /\ log(<<LogLine("FAIL (no JSON)", idx)>>)
               /\ csv' = Append(csv, Row(media, None, "FAILED"))
               /\ cur' = [kind |-> "no_json", ok |-> FALSE, sidecar |-> None]
               /\ UNCHANGED <<toolCalls, warn_ct, failure_reasons>>
          ELSE IF sidecar \in cfg.bad
          THEN /\ log(<<LogLine("FAIL (bad JSON)", idx)>>)
               /\ csv' = Append(csv, Row(media, sidecar, "FAILED"))
               /\ cur' = [kind |-> "bad_json", ok |-> FALSE, sidecar |-> sidecar]
               /\ UNCHANGED <<toolCalls, warn_ct, failure_reasons>>
          ELSE \E rc \in run_exiftool :
                 IF rc # 0
                 THEN /\ log(<<LogLine("FAIL (exiftool)", idx)>>)
                      /\ toolCalls' = toolCalls \o Invoked(media, idx, FALSE, rc)
                      /\ csv' = Append(csv, Row(media, sidecar, "FAILED"))
                      /\ cur' = [kind |-> "exiftool_error", ok |-> FALSE, sidecar |-> sidecar]
                      /\ UNCHANGED <<warn_ct, failure_reasons>>
                 ELSE \E rc2 \in run_exiftool :
                        LET warned == partner # None /\ rc2 # 0
                        IN /\ log((IF warned THEN <<LogLine("WARN", idx)>> ELSE <<>>)
                                  \o <<LogLine("OK", idx)>>)
                           /\ toolCalls' = toolCalls \o Invoked(media, idx, FALSE, rc) \o
                                           (IF partner # None
                                            THEN Invoked(partner, idx, TRUE, rc2)
                                            ELSE <<>>)
                           /\ warn_ct' = IF warned THEN warn_ct + 1 ELSE warn_ct
                           /\ failure_reasons' = IF warned
                                                 THEN Bump(failure_reasons, "partner_error")
                                                 ELSE failure_reasons
                           /\ csv' = Append(csv, Row(media, sidecar,
                                        IF warned THEN "COMPLETED_WITH_PARTNER_WARN"
                                        ELSE "COMPLETED"))
                           /\ cur' = [kind |-> "ok", ok |-> TRUE, sidecar |-> sidecar]
    /\ pc' = "merge_move"
    /\ UNCHANGED <<ctrlV, cfg, walkV, planV, idx, ok_ct, fail_ct, report_csv, fs, moves,
                   events, pending, appV, histV>>

\* The rest of the entry: move_pair, the counters, counts.emit, progress.emit.
\* shutil.move of a media file that is no longer there raises, and run() turns
\* that into the fatal signal.
MergeMove ==
    /\ pc = "merge_move"
    /\ LET media == plan[idx].media
       IN IF ~cfg.dry_run /\ ~Exists(fs, media)
          THEN /\ Emit("fatal")
               /\ pending' = pending \cup {"fatal"}
               /\ pc' = "done"
               /\ UNCHANGED <<fs, moves, ok_ct, fail_ct, failure_reasons, idx>>
          ELSE /\ move_pair(media, cur.sidecar, cur.ok)
               /\ ok_ct' = IF cur.ok THEN ok_ct + 1 ELSE ok_ct
               /\ fail_ct' = IF cur.ok THEN fail_ct ELSE fail_ct + 1
               /\ failure_reasons' = IF cur.ok THEN failure_reasons
                                     ELSE Bump(failure_reasons, cur.kind)
               /\ Emit("counts")
               /\ idx' = idx + 1
               /\ pc' = "merge_for"
               /\ UNCHANGED pending
    /\ UNCHANGED <<ctrlV, cfg, walkV, planV, warn_ct, report_csv, csv, cur, toolCalls,
                   statusLines, flog, appV, histV>>

\* shutil.move raising inside move_pair (destination not writable, disk full,
\* file locked): on the media file, or on the sidecar after the media file has
\* been moved.  Nothing in move_pair or in the loop catches it; run() does and
\* emits fatal.
MergeMoveFails ==
    /\ pc = "merge_move"
    /\ ~cfg.dry_run
    /\ Exists(fs, plan[idx].media)
    /\ LET media == plan[idx].media
           sidecar == cur.sidecar
           fs1 == Without(fs, media)
       IN \/ UNCHANGED <<fs, moves>>
          \/ /\ sidecar # None /\ Exists(fs1, sidecar)
             /\ fs' = fs1
             /\ moves' = Append(moves, [src |-> media, dst |-> Dest(cur.ok, media, media.name)])
    /\ Emit("fatal")
    /\ pending' = pending \cup {"fatal"}
    /\ pc' = "done"
    /\ UNCHANGED <<ctrlV, cfg, walkV, planV, mergeV, toolCalls, appV, histV>>

\* Variant: the failure snapshot emitted after the completion event
MergeEnd_SummaryLast ==
    /\ pc = "merge_end"
    /\ events' = events \o <<"finished_files", "failure_summary">>
    /\ pending' = pending \cup {"finished_files"}
    /\ pc' = "done"
    /\ UNCHANGED <<ctrlV, cfg, walkV, planV, mergeV, worldV, appV, histV>>

\* after the loop: failure_summary.emit, finished_files.emit
MergeEnd ==
    /\ pc = "merge_end"
    /\ events' = events \o <<"failure_summary", "finished_files">>
    /\ pending' = pending \cup {"finished_files"}
    /\ pc' = "done"
    /\ UNCHANGED <<ctrlV, cfg, walkV, planV, mergeV, worldV, appV, histV>>


\* ------------------------------------------------------------ App (GUI thread)
InMergeLoop == pc \in {"merge_for", "merge_pause", "merge_proc", "merge_move"}

\* the places where the worker waits while paused
WaitPcs == {"walk_pause", "walk_chunk_pause", "count_pause", "map_pause",
            "map_file_pause", "merge_pause", "gate"}

\* the pass of stage_plan the worker is in
PassOf(p) ==
    CASE p \in {"walk_while", "walk_pause", "walk_pop", "walk_chunk", "walk_chunk_pause",
                "walk_item", "walk_extend"} -> "walk"
      [] p \in {"count_for", "count_pause", "count_dir", "count_done"} -> "count"
      [] p \in {"map_for", "map_pause", "map_dir", "map_file", "map_file_pause",
                "map_file_body", "map_done"} -> "map"
      [] OTHER -> ""
\* what is noted of a request made while a pass of stage_plan is running
Mark ==
    IF PassOf(pc) = "" THEN NoMark
    ELSE [n |-> examined, dirs |-> Len(all_directories), pass |-> PassOf(pc)]

\* What the history variables keep of the first stop request: the number of
\* entries completed at that moment if the merge loop is running, the entry
\* the worker is held before if it is in the pause gate of the loop, and the
\* place where the worker is waiting if it is paused.
NoteStop ==
    /\ stopAt' = IF ~stop /\ InMergeLoop THEN ok_ct + fail_ct ELSE stopAt
    /\ stopPausedAt' = IF ~stop /\ pc = "merge_pause" /\ paused THEN idx ELSE stopPausedAt
    /\ stopWaitPc' = IF ~stop /\ pc \in WaitPcs /\ paused THEN pc ELSE stopWaitPc
    /\ stopMark' = IF ~stop THEN Mark ELSE stopMark
    /\ UNCHANGED <<examined, pauseMark>>

\* The GUI thread runs one handler at a time; a modal dialog (dlg.exec())
\* keeps the buttons of the main window from being clicked.
GuiIdle == dlg \notin {"open", "rejecting"}

\* on_pause_toggle: the pause button, whose text says which way it toggles
on_pause_toggle ==
    /\ GuiIdle
    /\ btn_pause_enabled
    /\ clicks < MaxClicks
    /\ clicks' = clicks + 1
    /\ IF btn_pause_text = "Pause"
       THEN /\ toggle_pause(TRUE) /\ btn_pause_text' = "Resume"
            /\ pauseMark' = Mark
       ELSE /\ toggle_pause(FALSE) /\ btn_pause_text' = "Pause"
            /\ pauseMark' = NoMark
    /\ UNCHANGED <<stop, cfg, pc, walkV, planV, mergeV, worldV, events, pending,
                   btn_pause_enabled, btn_stop_enabled, dlg, btn_start_enabled, startV,
                   stopV, examined, stopMark>>

\* on_stop: request_stop, then Pause and Stop are disabled and Start enabled
on_stop ==
    /\ GuiIdle
    /\ btn_stop_enabled
    /\ request_stop
    /\ NoteStop
    /\ btn_pause_enabled' = FALSE
    /\ btn_stop_enabled' = FALSE
    /\ btn_start_enabled' = TRUE
    /\ UNCHANGED <<paused, cfg, pc, walkV, planV, mergeV, worldV, events, pending,
                   btn_pause_text, dlg, clicks, startV>>

\* on_plan_complete_show_dialog, up to dlg.exec(): the queued need_user_confirm
\* signal reaches its slot and the summary dialog opens
PlanDialogOpen ==
    /\ GuiIdle
    /\ "need_user_confirm" \in pending
    /\ pending' = pending \ {"need_user_confirm"}
    /\ dlg' = "open"
    /\ UNCHANGED <<ctrlV, cfg, pc, walkV, planV, mergeV, worldV, events,
                   btn_pause_text, btn_pause_enabled, btn_stop_enabled, clicks,
                   btn_start_enabled, startV, histV>>

\* the dialog is accepted (confirm-proceed): self.worker.toggle_pause(False)
PlanDialogAccept ==
    /\ dlg = "open"
    /\ toggle_pause(FALSE)
    /\ dlg' = "accepted"
    /\ UNCHANGED <<stop, cfg, pc, walkV, planV, mergeV, worldV, events, pending,
                   btn_pause_text, btn_pause_enabled, btn_stop_enabled, clicks,
                   btn_start_enabled, startV, stopV, seenV>>

\* the dialog is rejected (confirm-cancel), first statement: request_stop()
PlanDialogReject ==
    /\ dlg = "open"
    /\ request_stop
    /\ NoteStop
    /\ dlg' = "rejecting"
    /\ UNCHANGED <<paused, cfg, pc, walkV, planV, mergeV, worldV, events, pending,
                   btn_pause_text, btn_pause_enabled, btn_stop_enabled, clicks,
                   btn_start_enabled, startV>>

\* confirm-cancel, the rest: toggle_pause(False), Pause and Stop disabled,
\* Start enabled
PlanDialogRelease ==
    /\ dlg = "rejecting"
    /\ toggle_pause(FALSE)
    /\ dlg' = "rejected"
    /\ btn_pause_enabled' = FALSE
    /\ btn_stop_enabled' = FALSE
    /\ btn_start_enabled' = TRUE
    /\ UNCHANGED <<stop, cfg, pc, walkV, planV, mergeV, worldV, events, pending,
                   btn_pause_text, clicks, startV, stopV, seenV>>

\* on_finished (slot of finished_files): the buttons are reset, Start enabled
on_finished ==
    /\ dlg # "rejecting"
    /\ "finished_files" \in pending
    /\ pending' = pending \ {"finished_files"}
    /\ btn_pause_enabled' = FALSE
    /\ btn_stop_enabled' = FALSE
    /\ btn_pause_text' = "Pause"
    /\ btn_start_enabled' = TRUE
    /\ UNCHANGED <<ctrlV, cfg, pc, walkV, planV, mergeV, worldV, events, dlg, clicks,
                   startV, histV>>

\* on_fatal (slot of fatal): Pause and Stop are disabled, Start enabled
on_fatal ==
    /\ dlg # "rejecting"
    /\ "fatal" \in pending
    /\ pending' = pending \ {"fatal"}
    /\ btn_pause_enabled' = FALSE
    /\ btn_stop_enabled' = FALSE
    /\ btn_start_enabled' = TRUE
    /\ UNCHANGED <<ctrlV, cfg, pc, walkV, planV, mergeV, worldV, events,
                   btn_pause_text, dlg, clicks, startV, histV>>

\* on_start, used again: enabled whenever the Start button is. The widgets are
\* reset and self.worker is replaced by a new Orchestrator over whatever the
\* source holds now, which is started; nothing waits for the thread that
\* self.worker pointed to, and the signals that thread has queued are still
\* delivered to the same slots.
on_start ==
    /\ GuiIdle
    /\ btn_start_enabled
    /\ starts < MaxStarts
    /\ starts' = starts + 1
    /\ old_worker' = pc
    /\ btn_start_enabled' = FALSE
    /\ btn_pause_enabled' = TRUE
    /\ btn_stop_enabled' = TRUE
    /\ btn_pause_text' = "Pause"
    /\ dlg' = "none"
    /\ stop' = FALSE /\ paused' = FALSE
    /\ cfg' = [cfg EXCEPT !.tree0 = fs]
    /\ plan' = <<>> /\ analysis' = ZeroAnalysis
    /\ failure_reasons' = [no_json |-> 0, bad_json |-> 0, exiftool_error |-> 0,
                           partner_error |-> 0, other_error |-> 0]
    /\ pc' = "run"
    /\ all_directories' = <<>> /\ directories_to_scan' = <<>>
    /\ current_dir' = Root /\ dir_contents' = <<>> /\ subdirs' = <<>>
    /\ chunk_i' = 0 /\ item_i' = 0
    /\ dir_i' = 0 /\ total_media' = 0 /\ listing' = <<>> /\ file_i' = 0
    /\ images' = 0 /\ videos' = 0 /\ with_json' = 0 /\ without_json' = 0
    /\ stems' = {}
    /\ idx' = 0 /\ ok_ct' = 0 /\ fail_ct' = 0 /\ warn_ct' = 0
    /\ report_csv' = "none" /\ csv' = <<>> /\ cur' = NoCur
    /\ statusLines' = <<>> /\ flog' = <<>>
    /\ moves' = <<>> /\ toolCalls' = <<>>
    /\ events' = <<>>
    /\ stopAt' = -1 /\ stopPausedAt' = 0 /\ stopWaitPc' = ""
    /\ examined' = 0 /\ stopMark' = NoMark /\ pauseMark' = NoMark
    /\ flagWrites' = {}
    /\ UNCHANGED <<fs, pending, clicks>>

\* ------------------------------------------------------------ specification
\* Orchestrator.run: the steps of the worker thread
run ==
    \/ StagePlanStart \/ WalkWhile \/ WalkPause \/ WalkPop \/ WalkChunk
    \/ WalkChunkPause \/ WalkItem \/ WalkExtend
    \/ CountFor \/ CountPause \/ CountDir \/ CountDone
    \/ MapFor \/ MapPause \/ MapDir \/ MapFile \/ MapFilePause \/ MapFileBody
    \/ MapDone \/ PlanPause \/ Gate \/ GateStop
    \/ MergeStart \/ MergeFor \/ MergePause \/ MergeProc \/ MergeMove \/ MergeEnd

\* the handlers of the GUI thread
Gui ==
    \/ on_pause_toggle \/ on_stop
    \/ PlanDialogOpen \/ PlanDialogAccept \/ PlanDialogReject \/ PlanDialogRelease
    \/ on_finished \/ on_fatal

Next == run \/ Gui

Spec == Init /\ [][Next]_vars

\* The same program with the Start button used again, on the nested source
\* tree with preserve-structure off.
RestartInit == Init /\ cfg.tree0 = TreeNested /\ ~cfg.preserve
RestartNext == Next \/ on_start
RestartSpec == RestartInit /\ [][RestartNext]_vars

\* The directory walk of stage_plan alone (pass 0), with the Pause and Stop
\* buttons, over trees that include a directory the process may not list and
\* a link back to the root.
WalkScenarios ==
    { [tree |-> TreeDeep, bad |-> {}, denied |-> {}],
      [tree |-> TreeDeep, bad |-> {}, denied |-> {n_d1}],
      [tree |-> TreeNested, bad |-> {}, denied |-> {}],
      [tree |-> TreeLoop, bad |-> {}, denied |-> {}] }
WalkInit == InitWith(WalkScenarios) /\ cfg.src = "ok" /\ cfg.tool /\ cfg.dry_run /\ ~cfg.preserve
WalkNext ==
    \/ StagePlanStart \/ WalkWhile \/ WalkPause \/ WalkPop \/ WalkChunk
    \/ WalkChunkPause \/ WalkItem \/ WalkExtend
    \/ on_pause_toggle \/ on_stop
WalkSpec == WalkInit /\ [][WalkNext]_vars
\* The worker thread is scheduled as long as it can take a step.
WalkFairSpec ==
    /\ WalkSpec
    /\ WF_vars(StagePlanStart \/ WalkWhile \/ WalkPause \/ WalkPop \/ WalkChunk
                  \/ WalkChunkPause \/ WalkItem \/ WalkExtend)

\* The same program in an environment where a move can fail.
FaultNext == Next \/ MergeMoveFails
FaultSpec == Init /\ [][FaultNext]_vars

\* Sidecar resolution over the listings of one directory: every listing of up
\* to MaxListing names of the pool, in every order, mapped by the mapping pass
\* of stage_plan (which calls find_sidecar_json for each media file).
n_a_jpg_1_json == <<"a", ".jpg", "(1)", ".json">>
n_a_1_json == <<"a", "(1)", ".json">>
n_a_2_json == <<"a", "(2)", ".json">>
n_a_json == <<"a", ".json">>
n_Metadata_png == <<"Metadata", ".png">>
n_Metadata_json == <<"Metadata", ".json">>
NamePool == {n_a_jpg, n_a_jpg_json, n_a_jpg_1_json, n_a_json, n_a_1_json, n_a_2_json,
             n_Metadata_png, n_Metadata_json}
Listings ==
    {l \in UNION {[1..n -> NamePool] : n \in 1..MaxListing} :
        \A i, j \in 1..Len(l) : i # j => l[i] # l[j]}

SidecarInit ==
    /\ stop = FALSE /\ paused = FALSE
    /\ \E l \in Listings :
         /\ MediaCount((Root :> l), Root) > 0
         /\ cfg = [dry_run |-> TRUE, preserve |-> FALSE, bad |-> {}, tree0 |-> (Root :> l),
                   src |-> "ok", tool |-> TRUE, overwrite |-> TRUE, data |-> SampleData,
                   denied |-> {}]
         /\ fs = (Root :> l)
         /\ total_media = MediaCount((Root :> l), Root)
    /\ plan = <<>> /\ analysis = ZeroAnalysis
    /\ failure_reasons = [no_json |-> 0, bad_json |-> 0, exiftool_error |-> 0,
                          partner_error |-> 0, other_error |-> 0]
    /\ pc = "map_for"
    /\ all_directories = <<Root>> /\ directories_to_scan = <<>>
    /\ current_dir = Root /\ dir_contents = fs[Root] /\ subdirs = <<>>
    /\ chunk_i = chunk_size /\ item_i = Len(fs[Root]) + 1
    /\ dir_i = 1 /\ listing = <<>> /\ file_i = 0
    /\ images = 0 /\ videos = 0 /\ with_json = 0 /\ without_json = 0 /\ stems = {}
    /\ idx = 0 /\ ok_ct = 0 /\ fail_ct = 0 /\ warn_ct = 0
    /\ report_csv = "none" /\ csv = <<>> /\ cur = NoCur
    /\ statusLines = <<>> /\ flog = <<>>
    /\ moves = <<>> /\ toolCalls = <<>>
    /\ events = <<"stage:Planning">> /\ pending = {}
    /\ btn_pause_text = "Pause" /\ btn_pause_enabled = TRUE /\ btn_stop_enabled = TRUE
    /\ dlg = "none" /\ clicks = 0
    /\ btn_start_enabled = FALSE /\ old_worker = "none" /\ starts = 0
    /\ stopAt = -1 /\ stopPausedAt = 0 /\ stopWaitPc = "" /\ flagWrites = {}
    /\ examined = 0 /\ stopMark = NoMark /\ pauseMark = NoMark
SidecarNext == MapFor \/ MapPause \/ MapDir \/ MapFile \/ MapFilePause \/ MapFileBody \/ MapDone
SidecarSpec == SidecarInit /\ [][SidecarNext]_vars

\* The merge of one entry (a.jpg with a.jpg.json) for every sidecar document
\* of JsonData, with and without overwrite: extract_google_fields and
\* build_exiftool_args as stage_merge calls them.
TreeOne == (Root :> <<n_a_jpg, n_a_jpg_json>>)
FieldsInit ==
    /\ stop = FALSE /\ paused = FALSE
    /\ \E data \in JsonData, ow \in BOOLEAN :
         cfg = [dry_run |-> FALSE, preserve |-> FALSE, bad |-> {}, tree0 |-> TreeOne,
                src |-> "ok", tool |-> TRUE, overwrite |-> ow, data |-> data,
                denied |-> {}]
    /\ fs = TreeOne
    /\ plan = <<[media |-> Path(Root, n_a_jpg), sidecar |-> Path(Root, n_a_jpg_json)]>>
    /\ analysis = [total |-> 1, images |-> 1, videos |-> 0, with_json |-> 1,
                   without_json |-> 0, live_pairs |-> 0]
    /\ failure_reasons = [no_json |-> 0, bad_json |-> 0, exiftool_error |-> 0,
                          partner_error |-> 0, other_error |-> 0]
    /\ pc = "merge_for"
    /\ all_directories = <<Root>> /\ directories_to_scan = <<>>
    /\ current_dir = Root /\ dir_contents = TreeOne[Root] /\ subdirs = <<>>
    /\ chunk_i = chunk_size /\ item_i = 3
    /\ dir_i = 2 /\ total_media = 1 /\ listing = TreeOne[Root] /\ file_i = 3
    /\ images = 1 /\ videos = 0 /\ with_json = 1 /\ without_json = 0
    /\ stems = {<<<<"a">>, "img">>}
    /\ idx = 1 /\ ok_ct = 0 /\ fail_ct = 0 /\ warn_ct = 0
    /\ report_csv = "open" /\ csv = <<>> /\ cur = NoCur
    /\ statusLines = <<LogLine("Starting stage: Merging", 0)>> /\ flog = <<>>
    /\ moves = <<>> /\ toolCalls = <<>>
    /\ events = <<"stage:Planning", "need_user_confirm", "stage:Merging">>
    /\ pending = {}
    /\ btn_pause_text = "Pause" /\ btn_pause_enabled = TRUE /\ btn_stop_enabled = TRUE
    /\ dlg = "accepted" /\ clicks = 0
    /\ btn_start_enabled = FALSE /\ old_worker = "none" /\ starts = 0
    /\ stopAt = -1 /\ stopPausedAt = 0 /\ stopWaitPc = ""
    /\ examined = 0 /\ stopMark = NoMark /\ pauseMark = NoMark
    /\ flagWrites = {[flag |-> "paused", locked |-> TRUE]}
FieldsNext == MergeFor \/ MergePause \/ MergeProc \/ MergeMove \/ MergeEnd
FieldsSpec == FieldsInit /\ [][FieldsNext]_vars

\* The worker thread is scheduled as long as it can take a step, and the GUI
\* event loop delivers a queued signal to its slot; what the user does (the
\* buttons, the answer to the dialog) is left to the user.
FairSpec ==
    /\ Spec
    /\ WF_vars(run)
    /\ WF_vars(PlanDialogOpen) /\ WF_vars(PlanDialogRelease)
    /\ WF_vars(on_finished) /\ WF_vars(on_fatal)


\* ------------------------------------------------------------ properties
Emitted(sig) == \E i \in 1..Len(events) : events[i] = sig

\* stage_plan has run to its end and surfaced the AnalysisSummary
Stage1Completed == Emitted("need_user_confirm")
\* stage_merge has been entered
MergeEntered == Emitted("stage:Merging")
\* no Stage-2 side effect has happened
NoMergeEffect ==
    /\ ~MergeEntered
    /\ report_csv = "none" /\ csv = <<>>
    /\ toolCalls = <<>> /\ moves = <<>>

\* C1 -- Confirmation gate safety: whenever Stage 1 has completed and the
\* collaborator has not answered confirm-proceed, the merge stage has not
\* started and there is no tool invocation, no move and no CSV row, whatever
\* request-stop and toggle-pause commands are interleaved with the worker.
C1_GateSafety == (Stage1Completed /\ dlg # "accepted") => NoMergeEffect

\* C2 -- Proceed is never lost: once the summary has been surfaced and the
\* collaborator has answered confirm-proceed with no stop requested, the
\* worker eventually enters Stage 2 (unless stop is requested or the user
\* holds the run with the pause button).
C2_ProceedNeverLost ==
    (dlg = "accepted" /\ ~stop) ~> (MergeEntered \/ stop \/ btn_pause_text = "Resume")

\* C3 -- Cancel at the gate: once the collaborator has answered
\* confirm-cancel, stage_merge is never entered: no destination check, no
\* CSV report, no tool invocation, no move, and no fatal event.
C3_CancelAtGate ==
    (dlg \in {"rejecting", "rejected"}) => (NoMergeEffect /\ ~Emitted("fatal"))

\* C3, restricted to the runs in which the pause button is never used
C3_CancelAtGate_NoPauseButton ==
    (dlg \in {"rejecting", "rejected"} /\ clicks = 0) => (NoMergeEffect /\ ~Emitted("fatal"))


\* the plan entries that have been processed to the end (row, move, counters)
Processed == 1..(ok_ct + fail_ct)
\* the moves of the media file of plan entry i
MediaMoves(i) == {k \in 1..Len(moves) : moves[k].src = plan[i].media}
\* the tool invocations whose primary target is plan entry i
PrimaryCalls(i) == {k \in 1..Len(toolCalls) : toolCalls[k].entry = i /\ ~toolCalls[k].partner}
\* the tool invocations whose target is the media file of plan entry i
CallsOn(i) == {k \in 1..Len(toolCalls) : toolCalls[k].target = plan[i].media}
\* the run has ended with the completion events and without a fatal event
EndedNormally ==
    /\ Emitted("failure_summary") /\ Emitted("finished_files")
    /\ ~Emitted("fatal")

C5_StopWhilePaused ==
    stopPausedAt > 0 =>
        /\ Len(csv) < stopPausedAt
        /\ MediaMoves(stopPausedAt) = {}
        /\ PrimaryCalls(stopPausedAt) = {}

\* C6 -- Stop is observed while paused without a wake-up: if stop is set while
\* the worker waits on the pause condition (a checkpoint or the confirmation
\* gate), the worker eventually terminates, with or without an unpause.
C6_StopObservedWhilePaused == (stop /\ paused /\ pc \in WaitPcs) ~> (pc = "done")

\* the worker was waiting, paused, when stop was requested; nobody unpaused
\* it, and it has terminated
C6_Witness ==
    /\ stopWaitPc \in WaitPcs /\ pc = "done" /\ paused
    /\ clicks = 1 /\ dlg \notin {"accepted", "rejected"}

\* C7 -- The stop flag is one-way: false at construction and, once set,
\* cleared by no command and no worker step.
C7_StopOneWay == (~stop) /\ [][stop => stop']_vars

\* stop was set, and afterwards commands (pause button, the cancel's
\* unpause) and worker steps have run
C7_Witness == stop /\ pc = "done" /\ dlg = "rejected" /\ clicks > 0 /\ ~btn_stop_enabled

\* the tool exited non-zero on the primary file of entry i
ToolFailed(i) == \E k \in PrimaryCalls(i) : toolCalls[k].rc # 0

\* C8 -- Routing invariant of Stage 2: every processed entry is moved to
\* exactly one destination tree: failed if its sidecar is none, fails to
\* parse or the tool fails on the primary file, completed in every other case.
C8_Routing ==
    ~cfg.dry_run =>
        \A i \in Processed :
            /\ Cardinality(MediaMoves(i)) = 1
            /\ \A k \in MediaMoves(i) :
                 moves[k].dst.root =
                    IF plan[i].sidecar = None \/ plan[i].sidecar \in cfg.bad \/ ToolFailed(i)
                    THEN "failed" ELSE "completed"

\* a merge run that processed every plan entry and ended normally
FullRun == pc = "done" /\ EndedNormally /\ Len(csv) = Len(plan)

\* C9 -- after a full merge run the no_json bucket equals the number of plan
\* entries whose sidecar is none, and each of these files is in the failed tree.
C9_NoSidecarBucket ==
    (FullRun /\ ~cfg.dry_run) =>
        /\ failure_reasons.no_json = Cardinality({i \in 1..Len(plan) : plan[i].sidecar = None})
        /\ \A i \in 1..Len(plan) :
             plan[i].sidecar = None =>
                \E k \in MediaMoves(i) : moves[k].dst.root = "failed"

\* C10 -- Preview (dry-run) mode leaves the source tree unchanged: nothing is
\* moved, the tool is never invoked, every file is still at its original path,
\* and the report of a run that is not stopped has one row per plan entry.
C10_DryRunFrame ==
    cfg.dry_run =>
        /\ fs = cfg.tree0
        /\ moves = <<>>
        /\ toolCalls = <<>>
        /\ (pc = "done" /\ EndedNormally /\ ~stop) => Len(csv) = Len(plan)

\* a whole dry-run merge over a plan of several entries
C10_Witness ==
    /\ cfg.dry_run /\ pc = "done" /\ EndedNormally /\ ~stop
    /\ Len(plan) >= 2 /\ Len(csv) = Len(plan)

\* the status a preview (dry-run) merge writes for plan entry i: the source
\* tree is the snapshot the plan was built from, and the tool "exits" 0
PreviewStatus(i) ==
    IF plan[i].sidecar = None \/ ~Exists(cfg.tree0, plan[i].sidecar)
          \/ plan[i].sidecar \in cfg.bad
    THEN "FAILED" ELSE "COMPLETED"
\* every invocation of the tool made so far exited 0
ToolAlwaysZero == \A k \in 1..Len(toolCalls) : toolCalls[k].rc = 0

\* C11 -- Preview reports the would-be outcome: with a tool that always exits
\* 0, a merge run (preview or real) over the same plan and snapshot writes
\* for every entry the status the preview writes, and after a full run the
\* completed / failed counters are those of the preview.
C11_PreviewEquivalence ==
    ToolAlwaysZero =>
        /\ \A i \in 1..Len(csv) : csv[i].status = PreviewStatus(i)
        /\ FullRun =>
             /\ ok_ct = Cardinality({i \in 1..Len(plan) : PreviewStatus(i) = "COMPLETED"})
             /\ fail_ct = Cardinality({i \in 1..Len(plan) : PreviewStatus(i) = "FAILED"})

\* C11, for the preview runs alone: PreviewStatus is what a dry run writes
C11_PreviewIsPreviewStatus == cfg.dry_run => C11_PreviewEquivalence

\* the run went through stage_merge to its end and stop was never requested
NaturalCompletion == pc = "done" /\ EndedNormally /\ ~stop

\* C12 -- CSV report shape: the rows are the plan entries in plan order, the
\* row of an entry is written before the next entry is started, every status
\* is FAILED, COMPLETED or COMPLETED_WITH_PARTNER_WARN, and after a natural
\* completion there is exactly one row per plan entry.
C12_ReportShape ==
    /\ Len(csv) <= Len(plan)
    /\ \A i \in 1..Len(csv) :
         /\ csv[i].media_path = plan[i].media
         /\ csv[i].status \in {"FAILED", "COMPLETED", "COMPLETED_WITH_PARTNER_WARN"}
    /\ InMergeLoop => Len(csv) = (IF pc = "merge_move" THEN idx ELSE idx - 1)
    /\ NaturalCompletion => Len(csv) = Len(plan)

\* a real merge that completed naturally with failed and warned rows
C12_Witness ==
    /\ NaturalCompletion /\ ~cfg.dry_run /\ Len(csv) >= 3
    /\ \E i, k \in 1..Len(csv) :
         /\ csv[i].status = "FAILED"
         /\ csv[k].status = "COMPLETED_WITH_PARTNER_WARN"

\* C13 -- Per-entry errors never abort the run: a fatal event is raised only
\* before the first plan entry is taken up (source root, tool resolution);
\* once the report is open, a run that is not stopped records every entry
\* (a missing or unparseable sidecar, a tool failure, a failed move) and ends
\* with the completion events.
C13_PerEntryErrorsNotFatal ==
    /\ Emitted("fatal") => report_csv = "none"
    /\ (pc = "done" /\ report_csv = "open" /\ ~stop) =>
           (EndedNormally /\ ok_ct + fail_ct = Len(plan))

\* the number of times signal sig was emitted
Count(sig) == Cardinality({i \in 1..Len(events) : events[i] = sig})
\* the run has ended with a single fatal event and no completion event
EndedFatally ==
    /\ Count("fatal") = 1
    /\ ~Emitted("finished_files") /\ ~Emitted("failure_summary")
    /\ events[Len(events)] = "fatal"

\* C14 -- Fatal errors: a source root that is missing, not a directory or not
\* listable ends the run with exactly one fatal event and no completion event,
\* and so does (outside dry-run mode) a tool that cannot be resolved, once
\* stage_merge is entered; this is found before any plan entry is processed:
\* no CSV row, no tool invocation, no move.
C14_FatalErrors ==
    /\ (cfg.src # "ok" /\ pc = "done") => (EndedFatally /\ plan = <<>> /\ NoMergeEffect)
    /\ (cfg.src = "ok" /\ ~cfg.dry_run /\ ~cfg.tool /\ MergeEntered) =>
          /\ EndedFatally /\ pc = "done"
          /\ report_csv = "none" /\ csv = <<>> /\ toolCalls = <<>> /\ moves = <<>>

\* the collaborator answered proceed over a plan of several entries and the
\* tool could not be resolved
C14_Witness ==
    /\ ~cfg.tool /\ ~cfg.dry_run /\ dlg = "accepted" /\ Len(plan) >= 2
    /\ MergeEntered /\ pc = "done" /\ "fatal" \notin pending

\* the worker has left the body of stage_plan without a fatal error
PastPlanning ==
    pc \in {"plan_pause", "gate", "gate_stop", "merge_start", "merge_for",
            "merge_pause", "merge_proc", "merge_move", "merge_end"}
       \/ (pc = "done" /\ cfg.src = "ok")

\* C15 -- Stage 1 always ends at the gate: whenever stage_plan returns without
\* a fatal error (normal completion, the zero-media short circuit, an early
\* exit caused by stop) the AnalysisSummary has been emitted exactly once,
\* and the worker sets the paused flag as it goes to the wait at the gate.
C15_Stage1EndsAtGate ==
    /\ [](Count("need_user_confirm") <= 1)
    /\ [](PastPlanning => Count("need_user_confirm") = 1)
    /\ [][(pc # "gate" /\ pc' = "gate") => paused']_vars

\* stage_plan was cut short by stop during the mapping pass, and the worker
\* is at the gate with the summary emitted once and the flag set
C15_Witness ==
    /\ pc = "gate" /\ stop /\ paused /\ Count("need_user_confirm") = 1
    /\ Len(plan) < analysis.total

\* C16 -- Zero-media short circuit: when the count pass finds no media file,
\* every counter of the AnalysisSummary is zero and the plan is empty, so
\* Stage 2, if the collaborator answers proceed, processes no entry: no tool
\* invocation, no move, no data row in the report.
C16_ZeroMedia ==
    (PastPlanning /\ total_media = 0) =>
        /\ analysis.total = 0 /\ analysis.images = 0 /\ analysis.videos = 0
        /\ analysis.with_json = 0 /\ analysis.without_json = 0
        /\ analysis.live_pairs = 0
        /\ plan = <<>>
        /\ csv = <<>> /\ toolCalls = <<>> /\ moves = <<>>
        /\ ok_ct = 0 /\ fail_ct = 0

\* no media was found, the collaborator answered proceed, and a real Stage 2
\* ran to its end
C16_Witness ==
    /\ total_media = 0 /\ ~stop /\ dlg = "accepted" /\ ~cfg.dry_run
    /\ report_csv = "open" /\ pc = "done" /\ EndedNormally

\* the stage of the pipeline the worker is in: 0 Idle, 1 Planning,
\* 2 AwaitingConfirmation, 3 Merging, 4 Finished
StageOf(p) ==
    CASE p = "run" -> 0
      [] p \in {"gate", "gate_stop"} -> 2
      [] p \in {"merge_start", "merge_for", "merge_pause", "merge_proc",
                "merge_move", "merge_end"} -> 3
      [] p = "done" -> 4
      [] OTHER -> 1
\* the position of the first emission of sig
Pos(sig) == CHOOSE i \in 1..Len(events) : events[i] = sig /\ \A j \in 1..(i - 1) : events[j] # sig

\* C17 -- Stage order: the worker goes through Planning, AwaitingConfirmation,
\* Merging, Finished in this order and enters none of them twice; Merging is
\* entered only after the summary has been emitted; the completion or fatal
\* event is the last event, and a finished worker produces no row, move,
\* tool invocation or event any more.
C17_StageOrder ==
    /\ [][StageOf(pc') >= StageOf(pc)]_vars
    /\ [](Count("stage:Planning") <= 1 /\ Count("stage:Merging") <= 1)
    /\ [](events # <<>> => events[1] = "stage:Planning")
    /\ [](MergeEntered =>
            /\ Emitted("need_user_confirm")
            /\ Pos("need_user_confirm") < Pos("stage:Merging"))
    /\ [](\A i \in 1..Len(events) :
            events[i] \in {"fatal", "finished_files"} => i = Len(events))
    /\ [][pc = "done" => UNCHANGED <<pc, events, csv, moves, toolCalls, plan, analysis,
                                     ok_ct, fail_ct, warn_ct>>]_vars

\* a run that went through the four stages and whose GUI handled the
\* completion event afterwards
C17_Witness ==
    /\ pc = "done" /\ EndedNormally /\ Len(csv) >= 2
    /\ Emitted("stage:Planning") /\ Emitted("need_user_confirm") /\ MergeEntered
    /\ "finished_files" \notin pending

\* The plan and the summary as functions of the directory tree alone: the
\* directories breadth-first from the root, each in listing order.
RECURSIVE BfsDirs(_, _)
BfsDirs(tree, queue) ==
    IF queue = <<>> THEN <<>>
    ELSE LET d == Head(queue)
             names == IF d \in cfg.denied THEN <<>>
                      ELSE SelectSeq(tree[d], LAMBDA n : IsDirIn(tree, d \o n))
             subs == [k \in 1..Len(names) |-> d \o names[k]]
         IN <<d>> \o BfsDirs(tree, Tail(queue) \o subs)
EntriesOf(tree, d) ==
    LET names == SelectSeq(tree[d], LAMBDA n : is_media_file(tree, Path(d, n)))
    IN [k \in 1..Len(names) |->
          [media |-> Path(d, names[k]), sidecar |-> find_sidecar_json(tree, Path(d, names[k]))]]
RECURSIVE Flatten(_)
Flatten(ss) == IF ss = <<>> THEN <<>> ELSE Head(ss) \o Flatten(Tail(ss))
PlanOf(tree) ==
    LET dirs == BfsDirs(tree, <<Root>>)
    IN Flatten([k \in 1..Len(dirs) |-> EntriesOf(tree, dirs[k])])
AnalysisOf(tree) ==
    LET p == PlanOf(tree)
        imgs == {i \in 1..Len(p) : is_image_file(tree, p[i].media)}
        vids == {i \in 1..Len(p) : is_video_file(tree, p[i].media)}
        withj == {i \in 1..Len(p) : p[i].sidecar # None}
        named == UNION { {<<d, i>> : i \in {k \in 1..Len(tree[d]) :
                                   /\ ~IsDirIn(tree, d \o tree[d][k])
                                   /\ Lower(tree[d][k][Len(tree[d][k])]) \in MEDIA_EXTS}}
                         : d \in DOMAIN tree }
    IN [total |-> Cardinality(named), images |-> Cardinality(imgs), videos |-> Cardinality(vids),
        with_json |-> Cardinality(withj), without_json |-> Len(p) - Cardinality(withj),
        live_pairs |-> Cardinality({Stem(p[i].media.name) : i \in imgs}
                                   \cap {Stem(p[i].media.name) : i \in vids})]

\* C18 -- Plan Builder determinism: the plan and the AnalysisSummary an
\* unstopped Stage 1 ends with are a function of the directory tree alone:
\* every run over the same tree, however it is paused and resumed during
\* planning, ends with the same plan (entries, order, sidecars) and summary.
C18_PlanDeterminism ==
    (PastPlanning /\ ~stop) =>
        /\ plan = PlanOf(cfg.tree0)
        /\ analysis = AnalysisOf(cfg.tree0)

\* Stage 1 over a tree of several directories was paused and resumed while it
\* was planning, and has built its plan
C18_Witness ==
    /\ pc = "plan_pause" /\ clicks = 2 /\ ~stop /\ ~paused
    /\ Len(plan) >= 3 /\ Len(all_directories) >= 3

\* the media files of a tree
MediaFilesOf(tree) ==
    UNION { {Path(d, tree[d][i]) : i \in {k \in 1..Len(tree[d]) :
                                           is_media_file(tree, Path(d, tree[d][k]))}}
            : d \in DOMAIN tree }
\* the position of a file in the listing of its directory
ListPos(tree, p) == CHOOSE i \in 1..Len(tree[p.dir]) : tree[p.dir][i] = p.name
\* the position of a directory in the order the walk visited the directories
VisitPos(d) == CHOOSE k \in 1..Len(all_directories) : all_directories[k] = d

C20_SummaryConsistent ==
    Emitted("need_user_confirm") =>
        /\ analysis.total = analysis.images + analysis.videos
        /\ analysis.total = analysis.with_json + analysis.without_json
        /\ analysis.total = Len(plan)
        /\ analysis.live_pairs =
             Cardinality({Stem(plan[i].media.name) : i \in {k \in 1..Len(plan) :
                              is_image_file(cfg.tree0, plan[k].media)}}
                         \cap {Stem(plan[i].media.name) : i \in {k \in 1..Len(plan) :
                              is_video_file(cfg.tree0, plan[k].media)}})

\* C20, for the runs that are not stopped
C20_SummaryConsistent_Unstopped == ~stop => C20_SummaryConsistent

\* C20, for the runs that are not stopped over a tree without a file whose
\* whole name is a media extension; on the tree of three images and a video
\* the summary is total=4, images=3, videos=1, with_json=2, without_json=2,
\* live_pairs=1
C20_SummaryConsistent_PlainNames ==
    (~stop /\ cfg.tree0 # TreeDot) =>
        /\ C20_SummaryConsistent
        /\ (Emitted("need_user_confirm") /\ cfg.tree0 = TreeExample) =>
              analysis = [total |-> 4, images |-> 3, videos |-> 1, with_json |-> 2,
                          without_json |-> 2, live_pairs |-> 1]

\* the exact sidecar name of a media file: its full file name + ".json"
ExactOf(media) == Path(media.dir, media.name \o <<".json">>)

\* C21 -- Sidecar resolution prefers the exact name: a media file whose
\* directory holds the file named <full media name>.json is planned with
\* that file, never with a decorated or shorter variant, whatever other JSON
\* files the directory holds.
C21_ExactPreferred ==
    \A i \in 1..Len(plan) :
        Exists(cfg.tree0, ExactOf(plan[i].media)) => plan[i].sidecar = ExactOf(plan[i].media)

\* a.jpg was resolved to a.jpg.json in a directory that also holds a shorter
\* and a decorated candidate
C21_Witness ==
    /\ \E i \in 1..Len(plan) :
         plan[i].media = Path(Root, n_a_jpg) /\ plan[i].sidecar = Path(Root, n_a_jpg_json)
    /\ Exists(cfg.tree0, Path(Root, n_a_json))
    /\ Exists(cfg.tree0, Path(Root, n_a_jpg_1_json))

\* the rank of a token in the order of its characters (the tokens of NamePool
\* differ in their first characters: "(" < "." < "M" < "a")
TokRank(t) ==
    CASE t = "(1)" -> 1
      [] t = "(2)" -> 2
      [] t = ".jpg" -> 3
      [] t = ".json" -> 4
      [] t = ".png" -> 5
      [] t = "Metadata" -> 6
      [] OTHER -> 7
\* a < b in lexical order
RECURSIVE NameLess(_, _)
NameLess(a, b) ==
    IF a = <<>> THEN b # <<>>
    ELSE IF b = <<>> THEN FALSE
    ELSE IF Head(a) = Head(b) THEN NameLess(Tail(a), Tail(b))
    ELSE TokRank(Head(a)) < TokRank(Head(b))
\* the fallback candidates of a media file: same directory, name starting
\* with the media stem and ending in ".json", not an album-level JSON
FallbackCands(tree, media) ==
    {n \in {tree[media.dir][k] : k \in 1..Len(tree[media.dir])} :
        /\ IsPrefix(Stem(media.name), n) /\ n[Len(n)] = ".json"
        /\ [k \in 1..Len(n) |-> Lower(n[k])] \notin ALBUM_JSON_NAMES}

\* C22 -- Sidecar fallback resolution: when the exact sidecar is absent the
\* media file is planned with the fallback candidate of the shortest name,
\* among those of equal length the lexically smallest, whatever the order of
\* the listing; with none when there is no candidate.
C22_Fallback ==
    \A i \in 1..Len(plan) :
        LET media == plan[i].media
            cands == FallbackCands(cfg.tree0, media)
        IN ~Exists(cfg.tree0, ExactOf(media)) =>
              IF cands = {} THEN plan[i].sidecar = None
              ELSE /\ plan[i].sidecar.dir = media.dir
                   /\ plan[i].sidecar.name \in cands
                   /\ \A m \in cands \ {plan[i].sidecar.name} :
                        \/ NameLen(plan[i].sidecar.name) < NameLen(m)
                        \/ /\ NameLen(plan[i].sidecar.name) = NameLen(m)
                           /\ NameLess(plan[i].sidecar.name, m)

\* C22, with the candidates of equal length left to the order of the listing
C22_Fallback_ShortestOnly ==
    \A i \in 1..Len(plan) :
        LET media == plan[i].media
            cands == FallbackCands(cfg.tree0, media)
        IN ~Exists(cfg.tree0, ExactOf(media)) =>
              IF cands = {} THEN plan[i].sidecar = None
              ELSE /\ plan[i].sidecar.dir = media.dir
                   /\ plan[i].sidecar.name \in cands
                   /\ \A m \in cands : NameLen(plan[i].sidecar.name) <= NameLen(m)

\* the fields extracted from the sidecar document of the run
Fields == extract_google_fields(cfg.data)
\* a tool invocation has been made with these fields
Extracted == toolCalls # <<>>

\* C23 (as stated) -- Zero/zero sentinel: for every sidecar whose geoData has
\* latitude 0 and longitude 0 the extracted latitude, longitude and altitude
\* are all none.
C23_ZeroZero_GeoDataAlone ==
    (Extracted /\ cfg.data.geoData.k = "dict"
       /\ cfg.data.geoData.lat = Some(0) /\ cfg.data.geoData.lon = Some(0)) =>
        /\ ~Fields.latitude.some /\ ~Fields.longitude.some /\ ~Fields.altitude.some

\* a geo block that the extractor must reject: not an object, a latitude or
\* longitude that is not a number, or both exactly zero
Rejected(g) == g.k # "dict" \/ ~g.lat.some \/ ~g.lon.some \/ (g.lat.n = 0 /\ g.lon.n = 0)

\* C23 (amended) -- a zero/zero geo block is never the source of the
\* extracted coordinates: a sidecar whose geoData is zero/zero yields none
\* for latitude, longitude and altitude unless its geoDataExif block is an
\* acceptable one, and then the fields are those of geoDataExif.
C23_ZeroZero ==
    (Extracted /\ cfg.data.geoData.k = "dict"
       /\ cfg.data.geoData.lat = Some(0) /\ cfg.data.geoData.lon = Some(0)) =>
        IF Rejected(cfg.data.geoDataExif)
        THEN ~Fields.latitude.some /\ ~Fields.longitude.some /\ ~Fields.altitude.some
        ELSE /\ Fields.latitude = cfg.data.geoDataExif.lat
             /\ Fields.longitude = cfg.data.geoDataExif.lon
             /\ Fields.altitude = cfg.data.geoDataExif.alt

\* a sidecar with a zero/zero geoData with an altitude, and no usable
\* geoDataExif, has been extracted
C23_Witness ==
    /\ Extracted /\ cfg.data.geoData = Geo(Some(0), Some(0), Some(35))
    /\ cfg.data.geoDataExif = NoGeo
    /\ \A k \in 1..Len(toolCalls[1].args) : toolCalls[1].args[k].opt # "-GPSLatitude="

\* the timestamp a time block offers: its "timestamp" value when the block
\* is an object that has one and the value parses as an integer
Usable(b) == IF b.k = "dict" /\ b.has_ts THEN ParseInt(b.ts) ELSE Nothing

\* C24 -- Timestamp extraction: the extracted timestamp is
\* photoTakenTime.timestamp when present and an integer, otherwise
\* creationTime.timestamp when present and an integer, otherwise none; a
\* photoTakenTime block without a usable timestamp falls back to creationTime.
C24_TimestampFallback ==
    Extracted =>
        Fields.taken_timestamp =
            IF Usable(cfg.data.photoTakenTime).some THEN Usable(cfg.data.photoTakenTime)
            ELSE Usable(cfg.data.creationTime)

\* C24, for the sidecars whose photoTakenTime is absent, empty or usable
C24_TimestampFallback_NoUnusableBlock ==
    (Extracted /\ (~TruthyBlock(cfg.data.photoTakenTime)
                     \/ Usable(cfg.data.photoTakenTime).some)) =>
        Fields.taken_timestamp =
            IF Usable(cfg.data.photoTakenTime).some THEN Usable(cfg.data.photoTakenTime)
            ELSE Usable(cfg.data.creationTime)

\* the epoch seconds of the UTC time <<year, month, day, hour, minute, second>>
EpochOf(st) ==
    LET y == st[1] - (IF st[2] <= 2 THEN 1 ELSE 0)
        era == y \div 400
        yoe == y - era * 400
        mp == IF st[2] > 2 THEN st[2] - 3 ELSE st[2] + 9
        doy == (153 * mp + 2) \div 5 + st[3] - 1
        doe == yoe * 365 + yoe \div 4 - yoe \div 100 + doy
    IN (era * 146097 + doe - 719468) * 86400 + st[4] * 3600 + st[5] * 60 + st[6]
\* the arguments of the first tool invocation with one of the given options
ArgsWith(opts) == SelectSeq(toolCalls[1].args, LAMBDA a : a.opt \in opts)
DateOpts == {"-DateTimeOriginal=", "-CreateDate=", "-ModifyDate="}
DescOpts == {"-XMP:Description=", "-IPTC:Caption-Abstract="}

\* C25 -- Tool-Argument Builder round trip: for fields with a timestamp T
\* (0 included), a description D and keywords K, the argument vector has
\* exactly three date arguments, each the UTC text of T, exactly two
\* description arguments carrying D, one keyword-append argument per element
\* of K, in order, carrying that element, and the target path as its last
\* argument.
C25_RoundTrip ==
    (Extracted /\ Fields.taken_timestamp.some /\ Fields.description.some) =>
        /\ Len(ArgsWith(DateOpts)) = 3
        /\ \A k \in 1..Len(ArgsWith(DateOpts)) :
             EpochOf(ArgsWith(DateOpts)[k].v) = Fields.taken_timestamp.n
        /\ Len(ArgsWith(DescOpts)) = 2
        /\ \A k \in 1..Len(ArgsWith(DescOpts)) :
             ArgsWith(DescOpts)[k].v = <<Fields.description.s>>
        /\ Len(ArgsWith({"-XMP:Subject+="})) = Len(Fields.keywords)
        /\ \A k \in 1..Len(ArgsWith({"-XMP:Subject+="})) :
             ArgsWith({"-XMP:Subject+="})[k].v = <<Fields.keywords[k]>>
        /\ toolCalls[1].args[Len(toolCalls[1].args)] = Arg("target", toolCalls[1].target)

\* C25, for timestamps other than 0 and with each keyword argument carrying
\* its keyword between two dashes
C25_RoundTrip_NonZeroDashed ==
    (Extracted /\ Fields.taken_timestamp.some /\ Fields.taken_timestamp.n # 0
       /\ Fields.description.some) =>
        /\ Len(ArgsWith(DateOpts)) = 3
        /\ \A k \in 1..Len(ArgsWith(DateOpts)) :
             /\ EpochOf(ArgsWith(DateOpts)[k].v) = Fields.taken_timestamp.n
             /\ Fields.taken_timestamp.n = T1 =>
                   ArgsWith(DateOpts)[k].v = <<2023, 11, 14, 22, 13, 20>>
        /\ Len(ArgsWith(DescOpts)) = 2
        /\ \A k \in 1..Len(ArgsWith(DescOpts)) :
             ArgsWith(DescOpts)[k].v = <<Fields.description.s>>
        /\ Len(ArgsWith({"-XMP:Subject+="})) = Len(Fields.keywords)
        /\ \A k \in 1..Len(ArgsWith({"-XMP:Subject+="})) :
             ArgsWith({"-XMP:Subject+="})[k].v = <<"-", Fields.keywords[k], "-">>
        /\ toolCalls[1].args[Len(toolCalls[1].args)] = Arg("target", toolCalls[1].target)

\* C25, for fields without keywords
C25_RoundTrip_NoKeywords ==
    (Fields.keywords = <<>>) => C25_RoundTrip

\* C26 -- All control-state mutations are mutex-guarded: every write of the
\* paused flag and of the stop flag, from any thread, is made while the pause
\* mutex is held.
C26_FlagWritesGuarded == \A w \in flagWrites : w.locked

\* C26, for the paused flag alone
C26_PausedWritesGuarded == \A w \in flagWrites : w.flag = "paused" => w.locked

\* for entry i the tool exited 0 on the primary file and non-zero on its
\* live partner
PartnerFailed(i) ==
    /\ \E k \in PrimaryCalls(i) : toolCalls[k].rc = 0
    /\ \E k \in 1..Len(toolCalls) :
         toolCalls[k].entry = i /\ toolCalls[k].partner /\ toolCalls[k].rc # 0
\* the rows written so far with the given statuses
RowsWith(statuses) == {i \in 1..Len(csv) : csv[i].status \in statuses}

OutcomeTexts == {"OK", "FAIL (no JSON)", "FAIL (bad JSON)", "FAIL (exiftool)"}

\* f holds the stage line and, for every entry that has its report row, a line
\* with the entry's outcome
HoldsLog(f) ==
    /\ \E k \in 1..Len(f) : f[k] = LogLine("Starting stage: Merging", 0)
    /\ \A i \in 1..Len(csv) :
         \E k \in 1..Len(f) : f[k].entry = i /\ f[k].text \in OutcomeTexts

\* C28: once finished_files has reported the log path, the file at that path
\* holds one line for the stage start and one outcome line for every plan
\* entry processed so far.
C28_TextLogComplete == Emitted("finished_files") => HoldsLog(flog)

\* What the code does keep: the same lines reach the status signal, each one
\* before the next entry is started.
C28_StatusLinesComplete ==
    (report_csv = "open" \/ Emitted("finished_files")) => HoldsLog(statusLines)

\* ---------------------------------------------------------------------------
\* The plan between the summary and the end of the worker
\* ---------------------------------------------------------------------------

\* C29: from the emission of the analysis summary (need_user_confirm) on, no
\* step of the worker and no command of the GUI adds, removes, reorders or
\* rewrites a plan entry, or changes a counter of the summary.
C29_PlanConsumedUnchanged ==
    [][Emitted("need_user_confirm") => (plan' = plan /\ analysis' = analysis)]_vars

\* a stopped merge of a plan of several entries, some of them processed, has
\* ended with the plan stage 1 computed
C29_Witness ==
    /\ pc = "done" /\ Emitted("finished_files") /\ stop
    /\ Len(plan) >= 2 /\ Len(csv) >= 1 /\ Len(csv) < Len(plan)
    /\ plan = PlanOf(cfg.tree0) /\ analysis = AnalysisOf(cfg.tree0)

\* ---------------------------------------------------------------------------
\* Retry from the failed tree
\* ---------------------------------------------------------------------------

\* the moves whose destination is in the failed tree, and those of them that
\* move the media file of a plan entry
RoutedToFailed == {k \in 1..Len(moves) : moves[k].dst.root = "failed"}
FailedMediaMoves ==
    {k \in RoutedToFailed : \E i \in 1..Len(plan) : plan[i].media = moves[k].src}
\* the sidecar moves that go with them: move_pair moves the sidecar right after
\* its media file, to the media file's name + ".json"
FailedWithSidecar ==
    {k \in FailedMediaMoves :
        /\ k + 1 \in RoutedToFailed
        /\ moves[k + 1].dst.name = moves[k].dst.name \o <<".json">>
        /\ \E i \in 1..Len(plan) :
             plan[i].media = moves[k].src /\ plan[i].sidecar = moves[k + 1].src}

\* The listing of the failed root with preserve-structure off after the first
\* k moves: shutil.move onto an existing file replaces it, so a name is listed
\* once, where it first arrived.
RECURSIVE FailedListing(_)
FailedListing(k) ==
    IF k = 0 THEN <<>>
    ELSE LET l == FailedListing(k - 1)
             m == moves[k]
         IN IF m.dst.root = "failed" /\ ~(\E j \in 1..Len(l) : l[j] = m.dst.name)
            THEN Append(l, m.dst.name)
            ELSE l
FailedTree == (Root :> FailedListing(Len(moves)))
\* the source file whose content the file of that name in the failed root holds:
\* that of the last move onto the name
HeldBy(name) ==
    moves[CHOOSE k \in RoutedToFailed :
            /\ moves[k].dst.name = name
            /\ \A j \in RoutedToFailed : moves[j].dst.name = name => j <= k].src

\* p, a plan over the failed root, holds exactly the media files routed to
\* failed, and every entry that failed with its sidecar has it again
RetryPlanIs(p) ==
    /\ Len(p) = Cardinality(FailedMediaMoves)
    /\ \A j \in 1..Len(p) :
         \E k \in FailedMediaMoves : p[j].media = Path(Root, moves[k].dst.name)
    /\ \A k \in FailedMediaMoves :
         \E j \in 1..Len(p) :
            /\ p[j].media = Path(Root, moves[k].dst.name)
            /\ HeldBy(moves[k].dst.name) = moves[k].src
    /\ \A k \in FailedWithSidecar :
         \E j \in 1..Len(p) :
            /\ p[j].media = Path(Root, moves[k].dst.name)
            /\ p[j].sidecar = Path(Root, moves[k + 1].dst.name)
            /\ HeldBy(moves[k + 1].dst.name) = moves[k + 1].src

\* two moves of the run had the same destination
MovesCollide ==
    \E j, k \in 1..Len(moves) : j # k /\ moves[j].dst = moves[k].dst

\* C30: after a run with preserve-structure off, the plan stage 1 computes
\* with the failed tree as source holds exactly the media files that were
\* routed to failed, and every entry that failed together with its sidecar is
\* planned again with that same sidecar, found under media name + ".json".
C30_RetryFromFailed ==
    (pc = "done" /\ ~cfg.preserve) => RetryPlanIs(PlanOf(FailedTree))

\* What the code does keep: the same when no two moves of the run had the same
\* destination.
C30_RetryFromFailed_NoCollision ==
    (pc = "done" /\ ~cfg.preserve /\ ~MovesCollide) => RetryPlanIs(PlanOf(FailedTree))

\* ---------------------------------------------------------------------------
\* Destinations of the moves
\* ---------------------------------------------------------------------------

\* a merge that was not a preview and went through the whole plan
FullMergeRun ==
    /\ pc = "done" /\ EndedNormally /\ ~cfg.dry_run
    /\ Len(csv) = Len(plan) /\ ok_ct + fail_ct = Len(plan)

\* the moves of media files of the plan
PlanMediaMoves ==
    {k \in 1..Len(moves) : \E i \in 1..Len(plan) : plan[i].media = moves[k].src}

NoMediaLost ==
    /\ \A i \in 1..Len(plan) : Cardinality(MediaMoves(i)) = 1
    /\ \A j, k \in PlanMediaMoves : j # k => moves[j].dst # moves[k].dst
    /\ Cardinality({moves[k].dst : k \in PlanMediaMoves}) = Len(plan)
    /\ ~MovesCollide

\* C38: after a full merge that is not a preview, with preserve-structure on
\* or off, distinct plan entries were moved to distinct destination paths: the
\* completed and failed trees hold as many media files of the run as the plan
\* has entries, and no move replaced a file moved earlier in the run.
C38_NoMediaLost == FullMergeRun => NoMediaLost

\* What the code does keep: the same with preserve-structure on.
C38_NoMediaLost_Preserve == (FullMergeRun /\ cfg.preserve) => NoMediaLost

\* ---------------------------------------------------------------------------
\* Sidecars of distinct entries
\* ---------------------------------------------------------------------------

\* two distinct entries of p carry the same sidecar
SharesSidecar(p) ==
    \E i, j \in 1..Len(p) :
        i # j /\ p[i].sidecar # None /\ p[i].sidecar = p[j].sidecar

\* C37: in every plan stage 1 produces, two distinct entries never carry the
\* same sidecar path, so the move of one entry's sidecar in stage 2 never
\* removes the sidecar a later entry was resolved to.
C37_SidecarsNotShared ==
    /\ Emitted("need_user_confirm") => ~SharesSidecar(plan)
    /\ \A i \in 1..Len(csv) :
         plan[i].sidecar # None => csv[i].json_sidecar = plan[i].sidecar

\* ---------------------------------------------------------------------------
\* Counters of the merge loop
\* ---------------------------------------------------------------------------

\* counts.emit(ok_ct, fail_ct, warn_ct) has just been made: the worker is back
\* at the loop test and idx has moved on, so the entry just processed is idx - 1
AtCounts ==
    /\ pc = "merge_for" /\ idx > 1
    /\ Len(events) > 0 /\ events[Len(events)] = "counts"

\* C36: at every emission of the counters, completed + failed is the number
\* of report rows written and the index of the entry just processed, warned
\* is at most completed, failed is no_json + bad_json + exiftool_error,
\* warned is partner_error, and other_error is 0.
C36_CounterInvariant ==
    AtCounts =>
        /\ ok_ct + fail_ct = Len(csv)
        /\ ok_ct + fail_ct = idx - 1
        /\ warn_ct <= ok_ct
        /\ fail_ct = failure_reasons.no_json + failure_reasons.bad_json
                      + failure_reasons.exiftool_error
        /\ warn_ct = failure_reasons.partner_error
        /\ failure_reasons.other_error = 0

\* the counters were just emitted with all three of them above zero
C36_Witness ==
    AtCounts /\ ok_ct >= 1 /\ fail_ct >= 1 /\ warn_ct >= 1 /\ idx = Len(plan) + 1

\* ---------------------------------------------------------------------------
\* Workers
\* ---------------------------------------------------------------------------

\* the worker that was replaced had not returned from run() when the new one
\* was started
StartedOverRunning == old_worker \notin {"none", "done"}

\* C35: for every sequence of start and stop commands, a new worker is never
\* started while the previous one is still executing planning or merge steps
\* (draining its current item after a stop): there are never two of them at
\* work on the same source tree.
C35_OneWorkerAtATime == ~StartedOverRunning

\* What the code does keep: Start is used again only after the previous worker
\* was told to stop or sent its last signal.
C35_StartAfterStopOrEnd ==
    [][starts' > starts => (stop \/ pc = "done")]_vars

\* ---------------------------------------------------------------------------
\* Latency of stop and pause in stage 1
\* ---------------------------------------------------------------------------

\* the directory entries examined since the request noted in m
Since(m) == examined - m.n

\* C31: after stop is requested during planning, the pass that is running
\* examines at most one more file before it exits and no further directory is
\* started; after a pause request the worker examines at most one more file
\* before it blocks.
C31_Stage1Latency ==
    /\ (stop /\ stopMark # NoMark) =>
          (Since(stopMark) <= 1 /\ Len(all_directories) = stopMark.dirs)
    /\ (paused /\ ~stop /\ pauseMark # NoMark) => Since(pauseMark) <= 1

\* The bound on the files alone, whatever directory is started.
C31_Stage1Latency_Files ==
    /\ (stop /\ stopMark # NoMark) => Since(stopMark) <= 1
    /\ (paused /\ ~stop /\ pauseMark # NoMark) => Since(pauseMark) <= 1

\* The bound on the files after a stop request alone.
C31_Stage1Latency_StopFiles ==
    (stop /\ stopMark # NoMark) => Since(stopMark) <= 1

\* What the code does keep: a stop requested during the walk or the mapping
\* pass lets at most one more entry be examined and one more directory be
\* recorded, and a pause requested during the mapping pass at most one more
\* entry.
C31_Stage1Latency_WalkAndMap ==
    /\ (stop /\ stopMark.pass \in {"walk", "map"}) =>
          (Since(stopMark) <= 1 /\ Len(all_directories) <= stopMark.dirs + 1)
    /\ (paused /\ ~stop /\ pauseMark.pass = "map") => Since(pauseMark) <= 1

\* ---------------------------------------------------------------------------
\* Pause and resume in the merge loop
\* ---------------------------------------------------------------------------

\* the worker leaves the pause gate of the merge loop and starts an entry
StartsEntry == pc = "merge_pause" /\ pc' = "merge_proc"

\* C32: while paused is set and stop is not, the worker starts no new plan
\* entry; it stays before the entry it is blocked before and resumes with it,
\* so that whatever the pause and unpause commands, the entries are processed
\* once each and in plan order (row i of the report is entry i of the plan,
\* and a merge that ends without stop has a row for every entry).
C32_PauseLosesNothing ==
    /\ [][StartsEntry => (~paused \/ stop)]_vars
    /\ [][(pc = "merge_pause" /\ pc' = "merge_pause") => idx' = idx]_vars
    /\ [][StartsEntry => (idx = Len(csv) + 1 /\ idx <= Len(plan))]_vars
    /\ [](\A i \in 1..Len(csv) : csv[i].media_path = plan[i].media)
    /\ []((pc = "done" /\ EndedNormally /\ ~stop) => Len(csv) = Len(plan))

\* the worker is blocked in the merge loop by the pause button, with one
\* entry processed and others to come
C32_Witness ==
    /\ pc = "merge_pause" /\ paused /\ ~stop /\ clicks >= 1
    /\ idx >= 2 /\ Len(csv) = idx - 1 /\ idx <= Len(plan)

\* the pause button was used twice and the merge went through the whole plan
C32_Resumed ==
    /\ pc = "done" /\ EndedNormally /\ ~stop /\ clicks = 2 /\ ~paused
    /\ Len(plan) >= 2 /\ Len(csv) = Len(plan)

\* ---------------------------------------------------------------------------
\* The directory walk
\* ---------------------------------------------------------------------------

\* the subdirectories of d the walk can find: none in a directory whose
\* listing is refused
ChildrenOf(d) ==
    IF d \in cfg.denied THEN {}
    ELSE {d \o fs[d][i] : i \in {k \in 1..Len(fs[d]) : IsDirIn(fs, d \o fs[d][k])}}
RECURSIVE ReachFrom(_)
ReachFrom(S) ==
    LET S2 == S \cup UNION {ChildrenOf(d) : d \in S}
    IN IF S2 = S THEN S ELSE ReachFrom(S2)
Reachable == ReachFrom({Root})
Recorded == {all_directories[k] : k \in 1..Len(all_directories)}
\* every recorded directory but the first was found in one recorded before it
ParentsFirst ==
    \A k \in 2..Len(all_directories) :
        \E j \in 1..(k - 1) : all_directories[k] \in ChildrenOf(all_directories[j])
\* the walk is over and stop has not been requested
WalkedAll == pc = "count_for" /\ ~stop

\* C33: the walker records the source root first, then every reachable
\* subdirectory exactly once, each after its parent and none of depth d+1
\* before one of depth d (a directory name is one token, so the depth of a
\* path is its length); a directory whose listing is refused stays in the
\* list, contributes no children, and the rest of the queue is walked.
C33_WalkCorrect ==
    WalkedAll =>
        /\ Len(all_directories) >= 1 /\ all_directories[1] = Root
        /\ \A j, k \in 1..Len(all_directories) :
              j # k => all_directories[j] # all_directories[k]
        /\ Recorded = Reachable
        /\ ParentsFirst
        /\ \A j, k \in 1..Len(all_directories) :
              j < k => Len(all_directories[j]) <= Len(all_directories[k])
        /\ \A d \in cfg.denied \cap DOMAIN fs :
              /\ d \in Recorded
              /\ \A e \in Recorded : ~(Len(e) > Len(d) /\ IsPrefix(d, e))

\* a walk over a tree with a refused directory has recorded that directory
\* and the one queued behind it
C33_Witness ==
    /\ WalkedAll /\ cfg.denied = {n_d1}
    /\ all_directories = <<Root, n_d1, n_d2>>

\* C34: on every finite structure, a link back to an ancestor included, the
\* walk ends (unless the worker is left paused for ever), with the queue empty
\* or on stop; whenever it ends, the recorded list is a prefix of the full
\* breadth-first order and every recorded directory but the root has its
\* parent recorded.
C34_WalkTerminates ==
    /\ (<>[](~paused \/ stop)) => <>(pc = "count_for")
    /\ [](IsPrefix(all_directories, BfsDirs(fs, <<Root>>)))
    /\ [](ParentsFirst)
    /\ []((pc = "count_for" /\ ~stop) => Recorded = Reachable)

\* the walk of the tree with the link was ended by stop after the root had
\* been reached again through the link
C34_Witness ==
    /\ pc = "count_for" /\ stopMark.pass = "walk" /\ cfg.tree0 = TreeLoop
    /\ Rep(1) \in Recorded
    /\ Len(all_directories) < Len(BfsDirs(fs, <<Root>>))

====
